---------------------------- MODULE Spec2Model ----------------------------
(***************************************************************************)
(* A model of AssSubtitleParser (src/components/video/AssSubtitleParser.ts) *)
(* : the line scan of parse, the Style / Dialogue row decoders, the        *)
(* override-tag and \t(...) extraction, the frame sampler                  *)
(* generateFrameData and the two queries getFrameDataAtTime and            *)
(* getActiveDialogues; of the text style of AssSubtitleRenderer; and of    *)
(* the controls overlay of VideoPlayerWithSubtitles.                       *)
(*                                                                         *)
(* Specifications.                                                         *)
(*  - Spec: parse of a script built from the sample lines, then queries.   *)
(*  - ScanSpec: the line scan alone, every line under every section.       *)
(*  - CallSpec: one call of a pure function on an argument of a sample set.*)
(*  - RaceSpec: two callers of getFrameDataAtTime on one dialogue.         *)
(*  - PlayerSpec: the player's renders, effects, events and timers.        *)
(*                                                                         *)
(* Representation.                                                         *)
(*  - A JavaScript string is a sequence of one-character strings.          *)
(*  - A JavaScript number is a record [n, d]: the rational n/d in lowest   *)
(*    terms when d > 0, and NaN when d = 0.  Arithmetic is exact; times    *)
(*    are multiples of 0.25 s and the explicit frame rates divide 1000, so *)
(*    the doubles of the program are exact there.  At the default rate of  *)
(*    30 the frame interval is not a double: the sum the frame loop        *)
(*    accumulates is computed in IEEE double arithmetic (ToDouble,         *)
(*    DoubleAdd) to decide how many passes the loop makes, and a frame     *)
(*    carries the exact multiple of the interval its timestamp rounds.     *)
(*  - An optional field is <<>> (undefined) or <<v>>.                      *)
(*  - A colour string "rgba(r, g, b, a)" is the record [r, g, b, a] of its *)
(*    printed components, a being the three printed decimals of toFixed(3) *)
(*    as a number of thousandths.                                          *)
(***************************************************************************)
EXTENDS Integers, Sequences, FiniteSets, TLC

(***************************************************************************)
(* Optional values.                                                        *)
(***************************************************************************)
Undef == << >>

Some(v) == << v >>

IsDef(o) == o # << >>

Val(o) == o[1]

(***************************************************************************)
(* Numbers.                                                                *)
(***************************************************************************)
Abs(i) == IF i < 0 THEN -i ELSE i

RECURSIVE Gcd(_, _)
Gcd(a, b) == IF b = 0 THEN a ELSE Gcd(b, a % b)

NaN == [n |-> 0, d |-> 0]

IsNaN(x) == x.d = 0

\* the number n/d, d # 0, in lowest terms
Rat(n, d) ==
  LET g == Gcd(Abs(n), Abs(d))
      s == IF d < 0 THEN -1 ELSE 1
  IN  [n |-> (s * n) \div g, d |-> (s * d) \div g]

Int2Num(i) == [n |-> i, d |-> 1]

NumAdd(x, y) ==
  IF IsNaN(x) \/ IsNaN(y) THEN NaN ELSE Rat(x.n * y.d + y.n * x.d, x.d * y.d)

NumSub(x, y) ==
  IF IsNaN(x) \/ IsNaN(y) THEN NaN ELSE Rat(x.n * y.d - y.n * x.d, x.d * y.d)

NumMul(x, y) ==
  IF IsNaN(x) \/ IsNaN(y) THEN NaN ELSE Rat(x.n * y.n, x.d * y.d)

\* x / y; 0 / 0 is NaN (a nonzero numerator over 0 does not occur: see progress)
NumDiv(x, y) ==
  IF IsNaN(x) \/ IsNaN(y) \/ (y.n = 0 /\ x.n = 0) THEN NaN
  ELSE Rat(x.n * y.d, x.d * y.n)

\* every comparison with NaN is false
NumLe(x, y) == ~IsNaN(x) /\ ~IsNaN(y) /\ x.n * y.d <= y.n * x.d

NumLt(x, y) == ~IsNaN(x) /\ ~IsNaN(y) /\ x.n * y.d < y.n * x.d

NumGe(x, y) == NumLe(y, x)

NumAbs(x) == IF IsNaN(x) THEN NaN ELSE [n |-> Abs(x.n), d |-> x.d]

\* floor of a rational
Floor(x) == IF x.n >= 0 THEN x.n \div x.d ELSE -((-x.n + x.d - 1) \div x.d)

\* Math.round: the nearest integer, halves rounded up; NaN stays NaN
MathRound(x) ==
  IF IsNaN(x) THEN NaN ELSE Int2Num(Floor(Rat(2 * x.n + x.d, 2 * x.d)))

\* x.toFixed(3) read back as a number: x rounded to thousandths
ToFixed3(x) ==
  IF IsNaN(x) THEN NaN
  ELSE Rat(Floor(Rat(2 * 1000 * x.n + x.d, 2 * x.d)), 1000)

\* v || dflt for a number v: NaN and 0 are falsy
OrElse(v, dflt) == IF IsNaN(v) \/ v.n = 0 THEN dflt ELSE v

(***************************************************************************)
(* Strings.                                                                *)
(***************************************************************************)
Digits == {"0", "1", "2", "3", "4", "5", "6", "7", "8", "9"}

HexDigits == Digits \cup {"A", "B", "C", "D", "E", "F", "a", "b", "c", "d", "e", "f"}

HexVal(c) ==
  CASE c = "0" -> 0 [] c = "1" -> 1 [] c = "2" -> 2 [] c = "3" -> 3
    [] c = "4" -> 4 [] c = "5" -> 5 [] c = "6" -> 6 [] c = "7" -> 7
    [] c = "8" -> 8 [] c = "9" -> 9
    [] c \in {"A", "a"} -> 10 [] c \in {"B", "b"} -> 11
    [] c \in {"C", "c"} -> 12 [] c \in {"D", "d"} -> 13
    [] c \in {"E", "e"} -> 14 [] c \in {"F", "f"} -> 15

\* s.substring(from) with a 0-based index
Substring(s, from) == SubSeq(s, from + 1, Len(s))

\* s.substring(from, to) / s.slice(from, to), 0-based, to exclusive
Slice(s, from, to) == SubSeq(s, from + 1, to)

StartsWith(s, p) == Len(s) >= Len(p) /\ SubSeq(s, 1, Len(p)) = p

EndsWith(s, p) == Len(s) >= Len(p) /\ SubSeq(s, Len(s) - Len(p) + 1, Len(s)) = p

\* is p a prefix of s at the 1-based position i
At(s, i, p) == i + Len(p) - 1 <= Len(s) /\ SubSeq(s, i, i + Len(p) - 1) = p

\* the end (exclusive, 1-based) of the longest run of characters of set cs from i
RunEnd(s, i, cs) ==
  CHOOSE e \in i..(Len(s) + 1) :
    /\ e = Len(s) + 1 \/ s[e] \notin cs
    /\ \A k \in i..(e - 1) : s[k] \in cs

\* the start (1-based) of the longest run of characters of set cs that ends at i
RunStart(s, i, cs) ==
  CHOOSE b \in 1..(i + 1) :
    /\ b = 1 \/ s[b - 1] \notin cs
    /\ \A k \in b..i : s[k] \in cs

TrimLeft(s) == SubSeq(s, RunEnd(s, 1, {" "}), Len(s))

TrimRight(s) == SubSeq(s, 1, RunStart(s, Len(s), {" "}) - 1)

Trim(s) == TrimRight(TrimLeft(s))

\* s.indexOf(c) as a 1-based position, 0 when c does not occur from i on
IndexFrom(s, c, i) ==
  IF \E k \in i..Len(s) : s[k] = c
  THEN CHOOSE k \in i..Len(s) : s[k] = c /\ \A m \in i..(k - 1) : s[m] # c
  ELSE 0

\* s.split(c): the pieces between the occurrences of the character c
RECURSIVE Split(_, _)
Split(s, c) ==
  LET i == IndexFrom(s, c, 1)
  IN  IF i = 0 THEN << s >>
      ELSE << SubSeq(s, 1, i - 1) >> \o Split(SubSeq(s, i + 1, Len(s)), c)

\* parts.join(c)
RECURSIVE Join(_, _)
Join(parts, c) ==
  IF parts = << >> THEN << >>
  ELSE IF Len(parts) = 1 THEN parts[1]
  ELSE parts[1] \o << c >> \o Join(Tail(parts), c)

MapTrim(parts) == [i \in 1..Len(parts) |-> Trim(parts[i])]

\* the value of a run of decimal digits
RECURSIVE DecVal(_)
DecVal(ds) ==
  IF ds = << >> THEN 0 ELSE 10 * DecVal(SubSeq(ds, 1, Len(ds) - 1)) + HexVal(ds[Len(ds)])

RECURSIVE HexRunVal(_)
HexRunVal(ds) ==
  IF ds = << >> THEN 0
  ELSE 16 * HexRunVal(SubSeq(ds, 1, Len(ds) - 1)) + HexVal(ds[Len(ds)])

RECURSIVE Pow10(_)
Pow10(k) == IF k = 0 THEN 1 ELSE 10 * Pow10(k - 1)

\* parseInt(s): leading blanks, a sign, then the longest digit prefix; NaN without one
ParseInt(s0) ==
  LET s   == TrimLeft(s0)
      neg == s # << >> /\ Head(s) = "-"
      b   == IF s # << >> /\ Head(s) \in {"-", "+"} THEN 2 ELSE 1
      e   == RunEnd(s, b, Digits)
  IN  IF e = b THEN NaN
      ELSE Int2Num((IF neg THEN -1 ELSE 1) * DecVal(SubSeq(s, b, e - 1)))

\* parseInt(s, 16) of a digit string: the longest hex prefix; NaN without one
ParseHex(s) ==
  LET e == RunEnd(s, 1, HexDigits)
  IN  IF e = 1 THEN NaN ELSE Int2Num(HexRunVal(SubSeq(s, 1, e - 1)))

\* parseFloat(s): leading blanks, a sign, digits, an optional fraction; NaN when
\* there is no digit (no sample input carries an exponent)
ParseFloat(s0) ==
  LET s    == TrimLeft(s0)
      neg  == s # << >> /\ Head(s) = "-"
      b    == IF s # << >> /\ Head(s) \in {"-", "+"} THEN 2 ELSE 1
      e    == RunEnd(s, b, Digits)
      dot  == e <= Len(s) /\ s[e] = "."
      f    == IF dot THEN RunEnd(s, e + 1, Digits) ELSE e
      frac == IF dot THEN SubSeq(s, e + 1, f - 1) ELSE << >>
      sg   == IF neg THEN -1 ELSE 1
  IN  IF e = b /\ frac = << >> THEN NaN
      ELSE Rat(sg * (DecVal(SubSeq(s, b, e - 1)) * Pow10(Len(frac)) + DecVal(frac)),
               Pow10(Len(frac)))

(***************************************************************************)
(* Time/colour codec.                                                      *)
(***************************************************************************)
\* parseTime: H:MM:SS.CS to seconds; 0 unless there are exactly three fields
parseTime(timeStr) ==
  LET parts == Split(timeStr, ":")
  IN  IF Len(parts) # 3 THEN Int2Num(0)
      ELSE LET hours   == OrElse(ParseInt(parts[1]), Int2Num(0))
               minutes == OrElse(ParseInt(parts[2]), Int2Num(0))
               secs    == OrElse(ParseFloat(parts[3]), Int2Num(0))
           IN  NumAdd(NumAdd(NumMul(hours, Int2Num(3600)), NumMul(minutes, Int2Num(60))),
                      secs)

White == [r |-> Int2Num(255), g |-> Int2Num(255), b |-> Int2Num(255), a |-> Int2Num(1)]

\* s.padStart(8, '0')
RECURSIVE PadStart8(_)
PadStart8(s) == IF Len(s) >= 8 THEN s ELSE PadStart8(<< "0" >> \o s)

\* a decoder that reads the digits as AARRGGBB
parseColorRGB(colorStr) ==
  IF colorStr = << >> \/ ~StartsWith(colorStr, << "&", "H" >>) THEN White
  ELSE LET hex == PadStart8(Substring(colorStr, 2))
           aa  == ParseHex(Slice(hex, 0, 2))
           rr  == ParseHex(Slice(hex, 2, 4))
           gg  == ParseHex(Slice(hex, 4, 6))
           bb  == ParseHex(Slice(hex, 6, 8))
           alpha == NumDiv(NumSub(Int2Num(255), aa), Int2Num(255))
       IN  [r |-> rr, g |-> gg, b |-> bb, a |-> ToFixed3(alpha)]

\* parseColor: &HAABBGGRR to the colour rgba(RR, GG, BB, ((255 - AA) / 255).toFixed(3))
parseColor(colorStr) ==
  IF colorStr = << >> \/ ~StartsWith(colorStr, << "&", "H" >>) THEN White
  ELSE LET hex == PadStart8(Substring(colorStr, 2))
           aa  == ParseHex(Slice(hex, 0, 2))
           bb  == ParseHex(Slice(hex, 2, 4))
           gg  == ParseHex(Slice(hex, 4, 6))
           rr  == ParseHex(Slice(hex, 6, 8))
           alpha == NumDiv(NumSub(Int2Num(255), aa), Int2Num(255))
       IN  [r |-> rr, g |-> gg, b |-> bb, a |-> ToFixed3(alpha)]

\* parseRgbaColor: the components of a colour string, Undef (null) when the string
\* does not match rgba(<digits>, <digits>, <digits>, <digits and dots>)
parseRgbaColor(color) ==
  IF \E k \in {"r", "g", "b", "a"} : IsNaN(color[k]) \/ color[k].n < 0 THEN Undef
  ELSE Some(color)

(***************************************************************************)
(* Override tags, text segments, transitions.                              *)
(***************************************************************************)
\* text.replace(/\{[^}]*\}/g, ''): the text without its {...} blocks
\* the first position from i on where a {...} block starts, 0 when there is none
BlockFrom(s, i) ==
  LET last == IF \E k \in i..Len(s) : s[k] = "}"
              THEN CHOOSE k \in i..Len(s) : s[k] = "}" /\ \A m \in (k + 1)..Len(s) : s[m] # "}"
              ELSE 0
  IN  IndexFrom(SubSeq(s, 1, last), "{", i)

RECURSIVE RemoveBlocks(_, _)
RemoveBlocks(s, i) ==
  LET b == BlockFrom(s, i)
  IN  IF b = 0 THEN SubSeq(s, i, Len(s))
      ELSE SubSeq(s, i, b - 1) \o RemoveBlocks(s, IndexFrom(s, "}", b + 1) + 1)

stripFormattingTags(text) == Trim(RemoveBlocks(text, 1))

\* the catalogue of parseOverrideTags, in its order: the tag type, the keywords
\* after the backslash, and the payload grammar
Patterns ==
  << [type |-> << "1", "c" >>, keys |-> << << "1", "c" >>, << "c" >> >>, kind |-> "color"],
     [type |-> << "2", "c" >>, keys |-> << << "2", "c" >> >>, kind |-> "color"],
     [type |-> << "3", "c" >>, keys |-> << << "3", "c" >> >>, kind |-> "color"],
     [type |-> << "4", "c" >>, keys |-> << << "4", "c" >> >>, kind |-> "color"],
     [type |-> << "a", "l", "p", "h", "a" >>, keys |-> << << "a", "l", "p", "h", "a" >> >>,
      kind |-> "alpha"],
     [type |-> << "1", "a" >>, keys |-> << << "1", "a" >> >>, kind |-> "alpha"],
     [type |-> << "2", "a" >>, keys |-> << << "2", "a" >> >>, kind |-> "alpha"],
     [type |-> << "3", "a" >>, keys |-> << << "3", "a" >> >>, kind |-> "alpha"],
     [type |-> << "4", "a" >>, keys |-> << << "4", "a" >> >>, kind |-> "alpha"],
     [type |-> << "f", "s" >>, keys |-> << << "f", "s" >> >>, kind |-> "num"],
     [type |-> << "f", "r", "z" >>, keys |-> << << "f", "r", "z" >> >>, kind |-> "snum"],
     [type |-> << "f", "s", "c", "x" >>, keys |-> << << "f", "s", "c", "x" >> >>,
      kind |-> "num"],
     [type |-> << "f", "s", "c", "y" >>, keys |-> << << "f", "s", "c", "y" >> >>,
      kind |-> "num"] >>

\* the end (exclusive) of a payload of the given grammar starting at i, 0 when
\* there is none; the captured value is PayloadValue
PayloadEnd(s, i, kind) ==
  CASE kind = "color" ->
         LET h == RunEnd(s, i + 2, HexDigits)
         IN  IF At(s, i, << "&", "H" >>) /\ h - (i + 2) \in 6..8 /\ At(s, h, << "&" >>)
             THEN h + 1 ELSE 0
    [] kind = "alpha" ->
         LET h == RunEnd(s, i + 2, HexDigits)
         IN  IF At(s, i, << "&", "H" >>) /\ h - (i + 2) = 2 /\ At(s, h, << "&" >>)
             THEN h + 1 ELSE 0
    [] kind \in {"num", "snum"} ->
         LET b == IF kind = "snum" /\ At(s, i, << "-" >>) THEN i + 1 ELSE i
             e == RunEnd(s, b, Digits)
             f == IF At(s, e, << "." >>) THEN RunEnd(s, e + 1, Digits) ELSE e
         IN  IF e = b THEN 0 ELSE IF f > e + 1 THEN f ELSE e

PayloadValue(s, i, kind) ==
  LET e == PayloadEnd(s, i, kind)
  IN  IF kind \in {"color", "alpha"} THEN SubSeq(s, i + 2, e - 2) ELSE SubSeq(s, i, e - 1)

\* the end (exclusive) of a match of the pattern at position i, 0 when none; the
\* position of its payload is PatternPayload
PatternPayload(s, i, pat) ==
  IF ~At(s, i, << "\\" >>) THEN 0
  ELSE IF \E k \in 1..Len(pat.keys) : At(s, i + 1, pat.keys[k])
       THEN LET k == CHOOSE k \in 1..Len(pat.keys) : At(s, i + 1, pat.keys[k])
            IN  i + 1 + Len(pat.keys[k])
       ELSE 0

PatternEnd(s, i, pat) ==
  LET p == PatternPayload(s, i, pat)
  IN  IF p = 0 THEN 0 ELSE PayloadEnd(s, p, pat.kind)

\* pattern.regex.exec in a loop: every match of one pattern, left to right
RECURSIVE MatchAll(_, _, _)
MatchAll(s, i, pat) ==
  LET starts == {k \in i..Len(s) : s[k] = "\\" /\ PatternEnd(s, k, pat) # 0}
  IN  IF starts = {} THEN << >>
      ELSE LET b == CHOOSE k \in starts : \A m \in starts : k <= m
           IN  << [type |-> pat.type,
                   value |-> PayloadValue(s, PatternPayload(s, b, pat), pat.kind),
                   startIndex |-> 0] >>
               \o MatchAll(s, PatternEnd(s, b, pat), pat)

RECURSIVE MatchPatterns(_, _)
MatchPatterns(content, k) ==
  IF k > Len(Patterns) THEN << >>
  ELSE MatchAll(content, 1, Patterns[k]) \o MatchPatterns(content, k + 1)

\* parseOverrideTags: the tags of one {...} block, pattern by pattern
parseOverrideTags(tagBlock) == MatchPatterns(Slice(tagBlock, 1, Len(tagBlock) - 1), 1)

\* parseTextSegments: the regex /(\{[^}]*\})|([^{}]+)/g walked over the text
RECURSIVE ScanSegments(_, _, _, _)
ScanSegments(s, i, currentIndex, currentOverrides) ==
  IF i > Len(s) THEN << >>
  ELSE IF s[i] = "{" THEN
         LET j == IndexFrom(s, "}", i + 1)
         IN  IF j = 0 THEN ScanSegments(s, i + 1, currentIndex, currentOverrides)
             ELSE LET ovs == parseOverrideTags(SubSeq(s, i, j))
                  IN  ScanSegments(s, j + 1, currentIndex,
                        currentOverrides \o
                          [k \in 1..Len(ovs) |-> [ovs[k] EXCEPT !.startIndex = currentIndex]])
  ELSE IF s[i] = "}" THEN ScanSegments(s, i + 1, currentIndex, currentOverrides)
  ELSE LET e == RunEnd(s, i, {s[k] : k \in 1..Len(s)} \ {"{", "}"})
       IN  << [text |-> SubSeq(s, i, e - 1),
               overrides |-> currentOverrides,
               startIndex |-> currentIndex,
               endIndex |-> currentIndex + (e - i)] >>
           \o ScanSegments(s, e, currentIndex + (e - i), currentOverrides)

\* a scan whose segments all hold the one list it keeps appending to (no snapshot)
parseTextSegmentsShared(text) ==
  LET segments == ScanSegments(text, 1, 0, << >>)
      final    == ScanSegments(text \o << "x" >>, 1, 0, << >>)
  IN  [j \in 1..Len(segments) |->
         [segments[j] EXCEPT !.overrides = final[Len(final)].overrides]]

parseTextSegments(text) == ScanSegments(text, 1, 0, << >>)

\* targetChanges[type] = value on a record kept as the list of its entries in
\* Object.entries order (first insertion)
SetEntry(entries, type, value) ==
  IF \E k \in 1..Len(entries) : entries[k].type = type
  THEN [k \in 1..Len(entries) |->
          IF entries[k].type = type THEN [type |-> type, value |-> value] ELSE entries[k]]
  ELSE Append(entries, [type |-> type, value |-> value])

RECURSIVE ToEntries(_, _)
ToEntries(ovs, entries) ==
  IF ovs = << >> THEN entries
  ELSE ToEntries(Tail(ovs), SetEntry(entries, Head(ovs).type, Head(ovs).value))

\* one \t(...) occurrence with its captured argument text
TransitionOf(args) ==
  LET params == MapTrim(Split(args, ","))
  IN  IF Len(params) >= 3
      THEN << [startOffset |-> OrElse(ParseFloat(params[1]), Int2Num(0)),
               endOffset |-> OrElse(ParseFloat(params[2]), Int2Num(0)),
               targetChanges |->
                 ToEntries(parseOverrideTags(<< "{" >> \o
                             Join(SubSeq(params, 3, Len(params)), ",") \o << "}" >>),
                           << >>)] >>
      ELSE << >>

\* parseTransitions: the regex /\\t\(([^)]+)\)/g walked over the text
TransitionAt(s, i) == At(s, i, << "\\", "t", "(" >>) /\ IndexFrom(s, ")", i + 3) > i + 3

RECURSIVE ScanTransitions(_, _)
ScanTransitions(s, i) ==
  LET starts == {k \in i..Len(s) : s[k] = "\\" /\ TransitionAt(s, k)}
  IN  IF starts = {} THEN << >>
      ELSE LET b == CHOOSE k \in starts : \A m \in starts : k <= m
               c == IndexFrom(s, ")", b + 3)
           IN  TransitionOf(SubSeq(s, b + 3, c - 1)) \o ScanTransitions(s, c + 1)

parseTransitions(text) == ScanTransitions(text, 1)

(***************************************************************************)
(* Frame sampler.                                                          *)
(***************************************************************************)
T1c == << "1", "c" >>

Tc == << "c" >>

T2c == << "2", "c" >>

T3c == << "3", "c" >>

T4c == << "4", "c" >>

Talpha == << "a", "l", "p", "h", "a" >>

T1a == << "1", "a" >>

Tfs == << "f", "s" >>

Tfrz == << "f", "r", "z" >>

\* the colour text `&H${value}` decoded
ColorOf(value) == parseColor(<< "&", "H" >> \o value)

\* (255 - parseInt(value, 16)) / 255
AlphaOf(value) == NumDiv(NumSub(Int2Num(255), ParseHex(value)), Int2Num(255))

\* applyOverrideToState: one override tag applied to the running state
applyOverrideToState(state, override) ==
  CASE override.type \in {T1c, Tc} ->
         [state EXCEPT !.primaryColor = Some(ColorOf(override.value))]
    [] override.type = T2c ->
         [state EXCEPT !.secondaryColor = Some(ColorOf(override.value))]
    [] override.type = T3c ->
         [state EXCEPT !.outlineColor = Some(ColorOf(override.value))]
    [] override.type = T4c ->
         [state EXCEPT !.backColor = Some(ColorOf(override.value))]
    [] override.type \in {Talpha, T1a} ->
         [state EXCEPT !.alpha = Some(AlphaOf(override.value))]
    [] override.type = Tfs ->
         [state EXCEPT !.fontSize = Some(ParseFloat(override.value))]
    [] override.type = Tfrz ->
         [state EXCEPT !.rotation = Some(ParseFloat(override.value))]
    [] OTHER -> state

RECURSIVE ApplyOverrides(_, _)
ApplyOverrides(state, overrides) ==
  IF overrides = << >> THEN state
  ELSE ApplyOverrides(applyOverrideToState(state, Head(overrides)), Tail(overrides))

\* from + (to - from) * progress
Lerp(from, to, progress) == NumAdd(from, NumMul(NumSub(to, from), progress))

\* interpolateColor: component-wise, r g b rounded, alpha printed with toFixed(3);
\* the from colour unchanged when either colour string does not parse
interpolateColor(fromColor, toColor, progress) ==
  LET fromRgba == parseRgbaColor(fromColor)
      toRgba   == parseRgbaColor(toColor)
  IN  IF ~IsDef(fromRgba) \/ ~IsDef(toRgba) THEN fromColor
      ELSE [r |-> MathRound(Lerp(Val(fromRgba).r, Val(toRgba).r, progress)),
            g |-> MathRound(Lerp(Val(fromRgba).g, Val(toRgba).g, progress)),
            b |-> MathRound(Lerp(Val(fromRgba).b, Val(toRgba).b, progress)),
            a |-> ToFixed3(Lerp(Val(fromRgba).a, Val(toRgba).a, progress))]

\* one entry of transition.targetChanges applied to result, reading frameData
InterpolateEntry(frameData, result, type, targetValue, progress) ==
  CASE type \in {T1c, Tc} ->
         IF IsDef(frameData.primaryColor)
         THEN [result EXCEPT !.primaryColor =
                 Some(interpolateColor(Val(frameData.primaryColor), ColorOf(targetValue),
                                       progress))]
         ELSE result
    [] type = T2c ->
         IF IsDef(frameData.secondaryColor)
         THEN [result EXCEPT !.secondaryColor =
                 Some(interpolateColor(Val(frameData.secondaryColor), ColorOf(targetValue),
                                       progress))]
         ELSE result
    [] type = T3c ->
         IF IsDef(frameData.outlineColor)
         THEN [result EXCEPT !.outlineColor =
                 Some(interpolateColor(Val(frameData.outlineColor), ColorOf(targetValue),
                                       progress))]
         ELSE result
    [] type \in {Talpha, T1a} ->
         IF IsDef(frameData.alpha)
         THEN [result EXCEPT !.alpha =
                 Some(Lerp(Val(frameData.alpha), AlphaOf(targetValue), progress))]
         ELSE result
    [] type = Tfs ->
         IF IsDef(frameData.fontSize)
         THEN [result EXCEPT !.fontSize =
                 Some(Lerp(Val(frameData.fontSize), ParseFloat(targetValue), progress))]
         ELSE result
    [] type = Tfrz ->
         IF IsDef(frameData.rotation)
         THEN [result EXCEPT !.rotation =
                 Some(Lerp(Val(frameData.rotation), ParseFloat(targetValue), progress))]
         ELSE result
    [] OTHER -> result

RECURSIVE InterpolateEntries(_, _, _, _)
InterpolateEntries(frameData, result, entries, progress) ==
  IF entries = << >> THEN result
  ELSE InterpolateEntries(frameData,
         InterpolateEntry(frameData, result, Head(entries).type, Head(entries).value,
                          progress),
         Tail(entries), progress)

\* interpolateFrameData: every target of the transition interpolated from frameData
interpolateFrameData(frameData, transition, progress) ==
  InterpolateEntries(frameData, frameData, transition.targetChanges, progress)

\* transitions that each interpolate from the frame before any transition
RECURSIVE FromBase(_, _, _, _)
FromBase(base, frameData, transitions, timestamp) ==
  IF transitions = << >> THEN frameData
  ELSE LET transition == Head(transitions)
           progress   == NumDiv(NumSub(timestamp, transition.startOffset),
                                NumSub(transition.endOffset, transition.startOffset))
       IN  FromBase(base,
             IF NumGe(timestamp, transition.startOffset)
                /\ NumLe(timestamp, transition.endOffset)
             THEN InterpolateEntries(base, frameData, transition.targetChanges, progress)
             ELSE frameData,
             Tail(transitions), timestamp)

ApplyTransitionsFromBase(frameData, transitions, timestamp) ==
  FromBase(frameData, frameData, transitions, timestamp)

\* the transitions of the dialogue applied in list order to the frame at timestamp
RECURSIVE ApplyTransitions(_, _, _)
ApplyTransitions(frameData, transitions, timestamp) ==
  IF transitions = << >> THEN frameData
  ELSE LET transition == Head(transitions)
           progress   == NumDiv(NumSub(timestamp, transition.startOffset),
                                NumSub(transition.endOffset, transition.startOffset))
       IN  ApplyTransitions(
             IF NumGe(timestamp, transition.startOffset)
                /\ NumLe(timestamp, transition.endOffset)
             THEN interpolateFrameData(frameData, transition, progress)
             ELSE frameData,
             Tail(transitions), timestamp)

\* the frame pushed for one timestamp of the walk
FrameAt(currentState, transitions, timestamp) ==
  ApplyTransitions([timestamp |-> timestamp,
                    primaryColor |-> currentState.primaryColor,
                    secondaryColor |-> currentState.secondaryColor,
                    outlineColor |-> currentState.outlineColor,
                    backColor |-> currentState.backColor,
                    alpha |-> currentState.alpha,
                    fontSize |-> currentState.fontSize,
                    rotation |-> currentState.rotation],
                   IF IsDef(transitions) THEN Val(transitions) ELSE << >>, timestamp)

(***************************************************************************)
(* IEEE-754 doubles for the loop counter of generateFrameData.  A double   *)
(* that is 0 or lies between 2^-7 and 2^12 is a whole multiple of 2^-60;   *)
(* it is kept as that whole number, in four limbs to the base 2^20, the    *)
(* least significant first: the fourth limb is the integer part.           *)
(***************************************************************************)
RECURSIVE Pow2(_)
Pow2(n) == IF n = 0 THEN 1 ELSE 2 * Pow2(n - 1)

RECURSIVE BitLength(_)
BitLength(i) == IF i = 0 THEN 0 ELSE 1 + BitLength(i \div 2)

BigZero == << 0, 0, 0, 0 >>

\* the exact sum
BigAdd(a, b) ==
  LET s1 == a[1] + b[1]
      s2 == a[2] + b[2] + s1 \div Pow2(20)
      s3 == a[3] + b[3] + s2 \div Pow2(20)
      s4 == a[4] + b[4] + s3 \div Pow2(20)
  IN  << s1 % Pow2(20), s2 % Pow2(20), s3 % Pow2(20), s4 >>

BigLt(a, b) ==
  \E i \in 1..4 : a[i] < b[i] /\ \A j \in (i + 1)..4 : a[j] = b[j]

BigLe(a, b) == a = b \/ BigLt(a, b)

\* round to nearest, ties to even, at 53 significant bits; inexact says that the
\* value is a little above a
RoundToDouble(a, inexact) ==
  LET top  == IF a = BigZero THEN 1
              ELSE CHOOSE i \in 1..4 : a[i] # 0 /\ \A j \in (i + 1)..4 : a[j] = 0
      drop == 20 * (top - 1) + BitLength(a[top]) - 53
  IN  IF drop <= 0 THEN a
      ELSE LET rest == a[1] % Pow2(drop)
               half == Pow2(drop - 1)
               kept == [a EXCEPT ![1] = a[1] - rest]
               odd  == (a[1] \div Pow2(drop)) % 2 = 1
           IN  IF rest > half \/ (rest = half /\ (inexact \/ odd))
               THEN BigAdd(kept, << Pow2(drop), 0, 0, 0 >>)
               ELSE kept

\* the double nearest to a number that is not negative, a literal or one division:
\* sixty bits after the binary point by long division, then the rounding
ToDouble(x) ==
  LET r3 == x.n % x.d
      r2 == (r3 * Pow2(20)) % x.d
      r1 == (r2 * Pow2(20)) % x.d
      r0 == (r1 * Pow2(20)) % x.d
  IN  RoundToDouble(<< (r1 * Pow2(20)) \div x.d, (r2 * Pow2(20)) \div x.d,
                       (r3 * Pow2(20)) \div x.d, x.n \div x.d >>,
                    r0 # 0)

\* the double sum
DoubleAdd(a, b) == RoundToDouble(BigAdd(a, b), FALSE)

\* the passes of for (timestamp = 0; timestamp <= duration; timestamp += frameInterval)
RECURSIVE CountPasses(_, _, _, _)
CountPasses(timestamp, duration, frameInterval, passes) ==
  IF ~BigLe(timestamp, duration) THEN passes
  ELSE CountPasses(DoubleAdd(timestamp, frameInterval), duration, frameInterval,
                   passes + 1)

\* for (timestamp = 0; timestamp <= duration; timestamp += frameInterval)
\* the number of passes of the loop, the sum accumulated in doubles
Passes(duration, frameInterval) ==
  IF NumLt(duration, Int2Num(0)) THEN 0
  ELSE CountPasses(BigZero, ToDouble(duration), ToDouble(frameInterval), 0)

\* a loop that stops before duration: timestamp < duration
FrameLoopExclusive(currentState, transitions, duration, frameInterval) ==
  LET passes == IF NumLe(duration, Int2Num(0)) THEN 0
                ELSE LET q == NumDiv(duration, frameInterval)
                     IN  IF q.d = 1 THEN q.n ELSE Floor(q) + 1
  IN  [k \in 1..passes |->
         FrameAt(currentState, transitions, NumMul(Int2Num(k - 1), frameInterval))]

\* a walk whose base state takes the values reached at the end of the transitions
\* that have completed before the timestamp
RetainedState(currentState, transitions, timestamp) ==
  LET list == IF IsDef(transitions) THEN Val(transitions) ELSE << >>
      done == {n \in 1..Len(list) : NumLt(list[n].endOffset, timestamp)
                                     /\ NumLe(list[n].startOffset, list[n].endOffset)}
  IN  IF done = {} THEN currentState
      ELSE LET last  == CHOOSE n \in done :
                          \A m \in done : NumLe(list[m].endOffset, list[n].endOffset)
               frame == FrameAt(currentState, transitions, list[last].endOffset)
           IN  [primaryColor |-> frame.primaryColor,
                secondaryColor |-> frame.secondaryColor,
                outlineColor |-> frame.outlineColor,
                backColor |-> frame.backColor,
                alpha |-> frame.alpha,
                fontSize |-> frame.fontSize,
                rotation |-> frame.rotation]

FrameLoopRetaining(currentState, transitions, duration, frameInterval) ==
  [k \in 1..Passes(duration, frameInterval) |->
     FrameAt(RetainedState(currentState, transitions,
                           NumMul(Int2Num(k - 1), frameInterval)),
             transitions, NumMul(Int2Num(k - 1), frameInterval))]

\* the frames pushed by the loop; the k-th pass has added frameInterval k - 1 times
FrameLoop(currentState, transitions, duration, frameInterval) ==
  [k \in 1..Passes(duration, frameInterval) |->
     FrameAt(currentState, transitions, NumMul(Int2Num(k - 1), frameInterval))]

\* the state the walk starts from: the style's defaults, then the overrides of the
\* first text segment
InitialState(dialogue, style) ==
  LET currentState == [primaryColor |-> style.primaryColour,
                       secondaryColor |-> style.secondaryColour,
                       outlineColor |-> style.outlineColour,
                       backColor |-> style.backColour,
                       alpha |-> Some(Int2Num(1)),
                       fontSize |-> style.fontsize,
                       rotation |-> style.angle]
  IN  IF IsDef(dialogue.segments) /\ Len(Val(dialogue.segments)) > 0
      THEN ApplyOverrides(currentState, Val(dialogue.segments)[1].overrides)
      ELSE currentState

DefaultFrameRate == 30

\* generateFrameData(dialogue, style, frameRate)
generateFrameData(dialogue, style, frameRate) ==
  LET duration      == NumMul(NumSub(Val(dialogue.end), Val(dialogue.start)), Int2Num(1000))
      frameInterval == NumDiv(Int2Num(1000), Int2Num(frameRate))
  IN  FrameLoop(InitialState(dialogue, style), dialogue.transitions, duration,
                frameInterval)

\* a scan that lets a later frame win a tie: diff <= minDiff
ClosestScanLast(frames, relativeTime) ==
  LET diff == [k \in 1..Len(frames) |-> NumAbs(NumSub(relativeTime, frames[k].timestamp))]
      best == CHOOSE k \in 1..Len(frames) :
                /\ \A m \in 1..(k - 1) : NumLe(diff[k], diff[m])
                /\ \A m \in (k + 1)..Len(frames) : NumLt(diff[k], diff[m])
  IN  frames[best]

\* the scan keeps the first frame no later frame is strictly nearer than: a frame
\* replaces closestFrame only when its diff is strictly less than minDiff
ClosestScan(frames, relativeTime) ==
  LET diff == [k \in 1..Len(frames) |-> NumAbs(NumSub(relativeTime, frames[k].timestamp))]
      best == CHOOSE k \in 1..Len(frames) :
                /\ \A m \in 1..(k - 1) : NumLt(diff[k], diff[m])
                /\ \A m \in (k + 1)..Len(frames) : NumLe(diff[k], diff[m])
  IN  frames[best]

TypeError == [error |-> "TypeError"]

\* a query that answers with the first cached frame without scanning
ClosestFrameFirst(dialogue, frames, currentTime) ==
  IF frames = << >> THEN TypeError ELSE frames[1]

\* the value getFrameDataAtTime returns from the cached frames: reading
\* closestFrame.timestamp of an empty list throws
ClosestFrame(dialogue, frames, currentTime) ==
  LET relativeTime == NumMul(NumSub(currentTime, Val(dialogue.start)), Int2Num(1000))
  IN  IF frames = << >> THEN TypeError
      ELSE ClosestScan(frames, relativeTime)

\* a filter test with an exclusive end bound
IsActiveStrict(dialogue, currentTime) ==
  NumGe(currentTime, Val(dialogue.start)) /\ NumLt(currentTime, Val(dialogue.end))

\* getActiveDialogues: subtitle.dialogues.filter(start <= currentTime <= end)
IsActive(dialogue, currentTime) ==
  NumGe(currentTime, Val(dialogue.start)) /\ NumLe(currentTime, Val(dialogue.end))

getActiveDialogues(ds, currentTime) == SelectSeq(ds, LAMBDA d : IsActive(d, currentTime))

(***************************************************************************)
(* The field names and line prefixes the decoders switch on.               *)
(***************************************************************************)
KName == << "N", "a", "m", "e" >>

KFontname == << "F", "o", "n", "t", "n", "a", "m", "e" >>

KFontsize == << "F", "o", "n", "t", "s", "i", "z", "e" >>

KPrimaryColour == << "P", "r", "i", "m", "a", "r", "y", "C", "o", "l", "o", "u", "r" >>

KSecondaryColour == << "S", "e", "c", "o", "n", "d", "a", "r", "y", "C", "o", "l", "o", "u", "r" >>

KOutlineColour == << "O", "u", "t", "l", "i", "n", "e", "C", "o", "l", "o", "u", "r" >>

KBackColour == << "B", "a", "c", "k", "C", "o", "l", "o", "u", "r" >>

KBold == << "B", "o", "l", "d" >>

KItalic == << "I", "t", "a", "l", "i", "c" >>

KUnderline == << "U", "n", "d", "e", "r", "l", "i", "n", "e" >>

KStrikeOut == << "S", "t", "r", "i", "k", "e", "O", "u", "t" >>

KScaleX == << "S", "c", "a", "l", "e", "X" >>

KScaleY == << "S", "c", "a", "l", "e", "Y" >>

KSpacing == << "S", "p", "a", "c", "i", "n", "g" >>

KAngle == << "A", "n", "g", "l", "e" >>

KBorderStyle == << "B", "o", "r", "d", "e", "r", "S", "t", "y", "l", "e" >>

KOutline == << "O", "u", "t", "l", "i", "n", "e" >>

KShadow == << "S", "h", "a", "d", "o", "w" >>

KAlignment == << "A", "l", "i", "g", "n", "m", "e", "n", "t" >>

KMarginL == << "M", "a", "r", "g", "i", "n", "L" >>

KMarginR == << "M", "a", "r", "g", "i", "n", "R" >>

KMarginV == << "M", "a", "r", "g", "i", "n", "V" >>

KEncoding == << "E", "n", "c", "o", "d", "i", "n", "g" >>

KLayer == << "L", "a", "y", "e", "r" >>

KStart == << "S", "t", "a", "r", "t" >>

KEnd == << "E", "n", "d" >>

KStyle == << "S", "t", "y", "l", "e" >>

KEffect == << "E", "f", "f", "e", "c", "t" >>

KText == << "T", "e", "x", "t" >>

PFormat == << "F", "o", "r", "m", "a", "t", ":" >>

PStyle == << "S", "t", "y", "l", "e", ":" >>

PDialogue == << "D", "i", "a", "l", "o", "g", "u", "e", ":" >>

SecScriptInfo == << "S", "c", "r", "i", "p", "t", " ", "I", "n", "f", "o" >>

SecStyles == << "V", "4", "+", " ", "S", "t", "y", "l", "e", "s" >>

SecEvents == << "E", "v", "e", "n", "t", "s" >>

(***************************************************************************)
(* Row decoders.                                                           *)
(***************************************************************************)
\* obj[key] = value on an object kept as the list of its entries
PutKey(entries, key, value) ==
  IF \E k \in 1..Len(entries) : entries[k].key = key
  THEN [k \in 1..Len(entries) |->
          IF entries[k].key = key THEN [key |-> key, value |-> value] ELSE entries[k]]
  ELSE Append(entries, [key |-> key, value |-> value])

HasKey(entries, key) == \E k \in 1..Len(entries) : entries[k].key = key

GetKey(entries, key) == entries[CHOOSE k \in 1..Len(entries) : entries[k].key = key].value

EmptyStyle ==
  [name |-> Undef, fontname |-> Undef, fontsize |-> Undef, primaryColour |-> Undef,
   secondaryColour |-> Undef, outlineColour |-> Undef, backColour |-> Undef,
   bold |-> Undef, italic |-> Undef, underline |-> Undef, strikeOut |-> Undef,
   scaleX |-> Undef, scaleY |-> Undef, spacing |-> Undef, angle |-> Undef,
   borderStyle |-> Undef, outline |-> Undef, shadow |-> Undef, alignment |-> Undef,
   marginL |-> Undef, marginR |-> Undef, marginV |-> Undef, encoding |-> Undef]

One == << "1" >>

MinusOne == << "-", "1" >>

\* the switch of parseStyle for one field
StyleField(style, field, value) ==
  CASE field = KName -> [style EXCEPT !.name = Some(value)]
    [] field = KFontname -> [style EXCEPT !.fontname = Some(value)]
    [] field = KFontsize ->
         [style EXCEPT !.fontsize = Some(OrElse(ParseInt(value), Int2Num(20)))]
    [] field = KPrimaryColour -> [style EXCEPT !.primaryColour = Some(parseColor(value))]
    [] field = KSecondaryColour -> [style EXCEPT !.secondaryColour = Some(parseColor(value))]
    [] field = KOutlineColour -> [style EXCEPT !.outlineColour = Some(parseColor(value))]
    [] field = KBackColour -> [style EXCEPT !.backColour = Some(parseColor(value))]
    [] field = KBold -> [style EXCEPT !.bold = Some(value = One \/ value = MinusOne)]
    [] field = KItalic -> [style EXCEPT !.italic = Some(value = One \/ value = MinusOne)]
    [] field = KUnderline -> [style EXCEPT !.underline = Some(value = One)]
    [] field = KStrikeOut -> [style EXCEPT !.strikeOut = Some(value = One)]
    [] field = KScaleX ->
         [style EXCEPT !.scaleX = Some(OrElse(ParseFloat(value), Int2Num(100)))]
    [] field = KScaleY ->
         [style EXCEPT !.scaleY = Some(OrElse(ParseFloat(value), Int2Num(100)))]
    [] field = KSpacing ->
         [style EXCEPT !.spacing = Some(OrElse(ParseFloat(value), Int2Num(0)))]
    [] field = KAngle -> [style EXCEPT !.angle = Some(OrElse(ParseFloat(value), Int2Num(0)))]
    [] field = KBorderStyle ->
         [style EXCEPT !.borderStyle = Some(OrElse(ParseInt(value), Int2Num(1)))]
    [] field = KOutline ->
         [style EXCEPT !.outline = Some(OrElse(ParseFloat(value), Int2Num(0)))]
    [] field = KShadow ->
         [style EXCEPT !.shadow = Some(OrElse(ParseFloat(value), Int2Num(0)))]
    [] field = KAlignment ->
         [style EXCEPT !.alignment = Some(OrElse(ParseInt(value), Int2Num(2)))]
    [] field = KMarginL ->
         [style EXCEPT !.marginL = Some(OrElse(ParseInt(value), Int2Num(0)))]
    [] field = KMarginR ->
         [style EXCEPT !.marginR = Some(OrElse(ParseInt(value), Int2Num(0)))]
    [] field = KMarginV ->
         [style EXCEPT !.marginV = Some(OrElse(ParseInt(value), Int2Num(0)))]
    [] field = KEncoding ->
         [style EXCEPT !.encoding = Some(OrElse(ParseInt(value), Int2Num(1)))]
    [] OTHER -> style

RECURSIVE StyleFields(_, _, _, _)
StyleFields(style, format, values, i) ==
  IF i > Len(format) THEN style
  ELSE StyleFields(StyleField(style, format[i], Trim(values[i])), format, values, i + 1)

\* a decoder that accepts a row with more values than the Format has fields
DecodeStyleAtLeast(line, format) ==
  LET values == Split(Substring(line, 6), ",")
  IN  IF Len(values) < Len(format) THEN << >>
      ELSE LET style == StyleFields(EmptyStyle, format, values, 1)
           IN  IF IsDef(style.name) /\ Val(style.name) # << >> THEN << style >> ELSE << >>

\* the style parseStyle stores for a Style: line, << >> when it stores none
DecodeStyle(line, format) ==
  LET values == Split(Substring(line, 6), ",")
  IN  IF Len(values) # Len(format) THEN << >>
      ELSE LET style == StyleFields(EmptyStyle, format, values, 1)
           IN  IF IsDef(style.name) /\ Val(style.name) # << >> THEN << style >> ELSE << >>

EmptyDialogue ==
  [layer |-> Undef, start |-> Undef, end |-> Undef, style |-> Undef, name |-> Undef,
   marginL |-> Undef, marginR |-> Undef, marginV |-> Undef, effect |-> Undef,
   text |-> Undef, originalText |-> Undef, segments |-> Undef, transitions |-> Undef,
   frames |-> Undef]

\* the switch of parseDialogue for one field
DialogueField(dialogue, field, value) ==
  CASE field = KLayer ->
         [dialogue EXCEPT !.layer = Some(OrElse(ParseInt(value), Int2Num(0)))]
    [] field = KStart -> [dialogue EXCEPT !.start = Some(parseTime(value))]
    [] field = KEnd -> [dialogue EXCEPT !.end = Some(parseTime(value))]
    [] field = KStyle -> [dialogue EXCEPT !.style = Some(value)]
    [] field = KName -> [dialogue EXCEPT !.name = Some(value)]
    [] field = KMarginL ->
         [dialogue EXCEPT !.marginL = Some(OrElse(ParseInt(value), Int2Num(0)))]
    [] field = KMarginR ->
         [dialogue EXCEPT !.marginR = Some(OrElse(ParseInt(value), Int2Num(0)))]
    [] field = KMarginV ->
         [dialogue EXCEPT !.marginV = Some(OrElse(ParseInt(value), Int2Num(0)))]
    [] field = KEffect -> [dialogue EXCEPT !.effect = Some(value)]
    [] field = KText ->
         [dialogue EXCEPT !.originalText = Some(value),
                          !.text = Some(stripFormattingTags(value)),
                          !.segments = Some(parseTextSegments(value)),
                          !.transitions = Some(parseTransitions(value))]
    [] OTHER -> dialogue

\* a decoder that takes the Text from its own token only
RECURSIVE DialogueFieldsNoRejoin(_, _, _, _)
DialogueFieldsNoRejoin(dialogue, format, values, i) ==
  IF i > Len(format) THEN dialogue
  ELSE DialogueFieldsNoRejoin(DialogueField(dialogue, format[i], Trim(values[i])),
                              format, values, i + 1)

RECURSIVE DialogueFields(_, _, _, _)
DialogueFields(dialogue, format, values, i) ==
  IF i > Len(format) THEN dialogue
  ELSE LET field == format[i]
           value == IF field = KText /\ i - 1 < Len(values) - 1
                    THEN Trim(Join(SubSeq(values, i, Len(values)), ","))
                    ELSE Trim(values[i])
       IN  DialogueFields(DialogueField(dialogue, field, value), format, values, i + 1)

\* the test that lets parseDialogue push the dialogue
Accepted(dialogue) ==
  IsDef(dialogue.start) /\ IsDef(dialogue.end)
  /\ IsDef(dialogue.text) /\ Val(dialogue.text) # << >>

\* a decoder that wants exactly as many tokens as the Format has fields
DecodeDialogueExact(line, format) ==
  LET values == Split(Substring(line, 9), ",")
  IN  IF Len(values) # Len(format) THEN << >>
      ELSE LET dialogue == DialogueFields(EmptyDialogue, format, values, 1)
           IN  IF Accepted(dialogue) THEN << dialogue >> ELSE << >>

\* a decoder without the length test of line 242: a missing token is undefined, and
\* parseTime (Start, End) or stripFormattingTags (Text) of undefined throws
DecodeDialogueUnguarded(line, format) ==
  LET values == Split(Substring(line, 9), ",")
      known  == SubSeq(format, 1, IF Len(values) < Len(format) THEN Len(values)
                                  ELSE Len(format))
  IN  IF \E i \in Len(values) + 1..Len(format) : format[i] \in {KStart, KEnd, KText}
      THEN << TypeError >>
      ELSE LET dialogue == DialogueFields(EmptyDialogue, known, values, 1)
           IN  IF Accepted(dialogue) THEN << dialogue >> ELSE << >>

\* the dialogue parseDialogue pushes for a Dialogue: line, << >> when it pushes none
DecodeDialogue(line, format) ==
  LET values == Split(Substring(line, 9), ",")
  IN  IF Len(values) < Len(format) THEN << >>
      ELSE LET dialogue == DialogueFields(EmptyDialogue, format, values, 1)
           IN  IF Accepted(dialogue) THEN << dialogue >> ELSE << >>

(***************************************************************************)
(* Sample input: the lines a script is made of.                            *)
(***************************************************************************)
\* the sample script: section headers
LineInfoHeader ==
  << "[","S","c","r","i","p","t"," ","I","n","f","o","]" >>

LineStylesHeader ==
  << "[","V","4","+"," ","S","t","y","l","e","s","]" >>

LineEventsHeader ==
  << " ","[","E","v","e","n","t","s","]" >>

\* a comment line
LineComment ==
  << ";"," ","m","a","d","e"," ","b","y"," ","h","a","n","d" >>

\* a key: value line, and a line without a colon
LineTitle ==
  << "T","i","t","l","e",":"," ","D","e","m","o" >>

LineNoColon ==
  << "H","e","l","l","o" >>

\* the styles Format and two Style rows
LineStyleFormat ==
  << "F","o","r","m","a","t",":"," ","N","a","m","e",","," ","F","o","n","t","s","i","z","e",","," ","P","r","i","m","a","r","y","C","o","l","o","u","r",","," ","S","e","c","o","n","d","a","r","y","C","o","l","o","u","r",","," ","O","u","t","l","i","n","e","C","o","l","o","u","r",","," ","B","a","c","k","C","o","l","o","u","r",","," ","A","n","g","l","e" >>

LineStyleDefault ==
  << "S","t","y","l","e",":"," ","D","e","f","a","u","l","t",",","2","0",",","&","H","0","0","F","F","F","F","F","F",",","&","H","0","0","0","0","0","0","F","F",",","&","H","0","0","0","0","0","0","0","0",",","&","H","8","0","0","0","0","0","0","0",",","0" >>

LineStyleBig ==
  << "S","t","y","l","e",":"," ","B","i","g",",","3","0",",","&","H","0","0","0","0","F","F","F","F",",","&","H","0","0","0","0","0","0","F","F",",","&","H","0","0","0","0","0","0","0","0",",","&","H","0","0","0","0","0","0","0","0",",","1","0" >>

\* the Default row with one value fewer and with one value more than the Format
LineStyleShort ==
  << "S","t","y","l","e",":"," ","D","e","f","a","u","l","t",",","4","4",",","&","H","0","0","0","0","0","0","F","F",",","&","H","0","0","0","0","0","0","F","F",",","&","H","0","0","0","0","0","0","0","0",",","&","H","0","0","0","0","0","0","0","0" >>

LineStyleLong ==
  << "S","t","y","l","e",":"," ","D","e","f","a","u","l","t",",","4","4",",","&","H","0","0","0","0","0","0","F","F",",","&","H","0","0","0","0","0","0","F","F",",","&","H","0","0","0","0","0","0","0","0",",","&","H","0","0","0","0","0","0","0","0",",","0",",","1" >>

\* two events Formats, the second without Start
LineEventFormat ==
  << "F","o","r","m","a","t",":"," ","L","a","y","e","r",","," ","S","t","a","r","t",","," ","E","n","d",","," ","S","t","y","l","e",","," ","T","e","x","t" >>

LineEventFormatNoStart ==
  << "F","o","r","m","a","t",":"," ","L","a","y","e","r",","," ","E","n","d",","," ","S","t","y","l","e",","," ","T","e","x","t" >>

\* the text of RowGrow: a font-size transition in a block before the text
TextGrow ==
  << "{","\\","t","(","0",",","1","0","0","0",",","\\","f","s","4","0",")","}","H","i" >>

\* Dialogue rows
RowGrow ==
  << "D","i","a","l","o","g","u","e",":"," ","0",",","0",":","0","0",":","0","0",".","0","0",",","0",":","0","0",":","0","1",".","5","0",",","D","e","f","a","u","l","t",",","{","\\","t","(","0",",","1","0","0","0",",","\\","f","s","4","0",")","}","H","i" >>

\* End earlier than Start
RowBackwards ==
  << "D","i","a","l","o","g","u","e",":"," ","0",",","0",":","0","0",":","0","1",".","0","0",",","0",":","0","0",":","0","0",".","5","0",",","D","e","f","a","u","l","t",",","L","o" >>

\* nothing left once the block is removed
RowNoText ==
  << "D","i","a","l","o","g","u","e",":"," ","0",",","0",":","0","0",":","0","0",".","0","0",",","0",":","0","0",":","0","1",".","0","0",",","D","e","f","a","u","l","t",",","{","\\","f","s","4","0","}" >>

\* fewer tokens than the Format has fields
RowShort ==
  << "D","i","a","l","o","g","u","e",":"," ","0",",","0",":","0","0",":","0","0",".","0","0",",","H","i" >>

\* one transition over every frame property, and one of zero width
RowAll ==
  << "D","i","a","l","o","g","u","e",":"," ","1",",","0",":","0","0",":","0","0",".","5","0",",","0",":","0","0",":","0","1",".","5","0",",","D","e","f","a","u","l","t",",","H","i","{","\\","t","(","0",",","1","0","0","0",",","\\","1","c","&","H","0","0","0","0","F","F","&","\\","2","c","&","H","0","0","F","F","0","0","&","\\","3","c","&","H","F","F","0","0","0","0","&","\\","4","c","&","H","0","0","0","0","F","F","&","\\","a","l","p","h","a","&","H","F","F","&","\\","f","s","4","0","\\","f","r","z","9","0",")","\\","t","(","5","0","0",",","5","0","0",",","\\","f","s","6","0",")","}" >>

\* two overlapping transitions of the font size
RowTwo ==
  << "D","i","a","l","o","g","u","e",":"," ","0",",","0",":","0","0",":","0","0",".","0","0",",","0",":","0","0",":","0","0",".","7","5",",","D","e","f","a","u","l","t",",","A","{","\\","t","(","0",",","1","0","0","0",",","\\","f","s","4","0",")","\\","t","(","0",",","5","0","0",",","\\","f","s","1","0",")","}" >>

HeaderLines == {LineInfoHeader, LineStylesHeader, LineEventsHeader}

\* the lines of the sample's script info section
InfoLines == {LineTitle, LineNoColon}

SkippedLines == {LineComment, << >>}

StyleRows == {LineStyleDefault, LineStyleBig, LineStyleShort, LineStyleLong}

FormatLines == {LineStyleFormat, LineEventFormat, LineEventFormatNoStart}

DialogueRows == {RowGrow, RowBackwards, RowNoText, RowShort, RowAll, RowTwo}

RawLines ==
  HeaderLines \cup SkippedLines \cup InfoLines \cup StyleRows \cup FormatLines
    \cup DialogueRows

\* content.split('\n').map(line => line.trim()): the lines the loop of parse sees
Lines == {Trim(raw) : raw \in RawLines}

\* line.substring(7).split(',').map(s => s.trim())
FormatOf(line) == MapTrim(Split(Substring(line, 7), ","))

\* the values styleFormat and dialogueFormat take on these lines
Formats == {<< >>} \cup {FormatOf(line) : line \in {l \in Lines : StartsWith(l, PFormat)}}

\* the decoders are pure: their values on the sample lines, computed once
StyleTable ==
  [line \in {l \in Lines : StartsWith(l, PStyle)}, format \in Formats |->
     DecodeStyle(line, format)]

DialogueTable ==
  [line \in {l \in Lines : StartsWith(l, PDialogue)}, format \in Formats |->
     DecodeDialogue(line, format)]

\* parseStyle: the style table after a Style: line
parseStyle(line, format, table) ==
  LET decoded == StyleTable[line, format]
  IN  IF decoded = << >> THEN table
      ELSE PutKey(table, Val(decoded[1].name), decoded[1])

\* a decoder that falls back on a built-in Format while no Format line has been read
parseDialogueDefaultFormat(line, format, list) ==
  list \o (IF format = << >> THEN DecodeDialogue(line, FormatOf(LineEventFormat))
           ELSE DialogueTable[line, format])

\* parseDialogue: the dialogue list after a Dialogue: line
parseDialogue(line, format, list) == list \o DialogueTable[line, format]

\* parseScriptInfo: the script info after a key: value line
parseScriptInfo(line, info) ==
  LET colonIndex == IndexFrom(line, ":", 1)
  IN  IF colonIndex = 0 THEN info
      ELSE PutKey(info, Trim(SubSeq(line, 1, colonIndex - 1)),
                  Trim(SubSeq(line, colonIndex + 1, Len(line))))

\* every style and dialogue these lines can produce
Decoded(table) == UNION {{table[x][k] : k \in 1..Len(table[x])} : x \in DOMAIN table}

SampleStyles == Decoded(StyleTable)

SampleDialogues == Decoded(DialogueTable)

\* the explicit frame rates of generateFrameData calls (frame intervals 500, 250 ms)
FrameRates == {2, 4}

\* generateFrameData is pure: its values on the sample dialogues, computed once
FrameTable ==
  [dialogue \in SampleDialogues, style \in SampleStyles,
   frameRate \in FrameRates \cup {DefaultFrameRate} |->
     generateFrameData(dialogue, style, frameRate)]

\* a generator that continues from the frames the dialogue already carries
FramesContinued(dialogue, style, frameRate) ==
  (IF IsDef(dialogue.frames) THEN Val(dialogue.frames) ELSE << >>)
    \o FrameTable[[dialogue EXCEPT !.frames = Undef], style, frameRate]

\* generateFrameData does not read dialogue.frames
Frames(dialogue, style, frameRate) ==
  FrameTable[[dialogue EXCEPT !.frames = Undef], style, frameRate]

\* a cache that is refilled on every call
CachedFramesAlways(dialogue, style) == Some(Frames(dialogue, style, DefaultFrameRate))

\* a cache that is kept only while the style of the call would generate it again
CachedFramesForStyle(dialogue, style) ==
  IF IsDef(dialogue.frames)
     /\ Val(dialogue.frames) = Frames(dialogue, style, DefaultFrameRate)
  THEN dialogue.frames
  ELSE Some(Frames(dialogue, style, DefaultFrameRate))

\* the cache test of getFrameDataAtTime: generate at the default rate when absent
CachedFrames(dialogue, style) ==
  IF ~IsDef(dialogue.frames) THEN Some(Frames(dialogue, style, DefaultFrameRate))
  ELSE dialogue.frames

\* the longest dialogue list the scan builds
MaxDialogues == 2

\* query times are 0, 0.25, ... MaxTick / 4 seconds
MaxTick == 6

Times == {Rat(k, 4) : k \in 0..MaxTick}

(***************************************************************************)
(* State.                                                                  *)
(***************************************************************************)
VARIABLES
  pc,              \* "scan": parse is in its loop; "idle": parse has returned and
                   \* the caller may query; "returned": a query has returned
  currentSection,  \* parse's locals
  styleFormat,
  dialogueFormat,
  scriptInfo,      \* result.scriptInfo, result.styles, result.dialogues
  styles,
  dialogues,
  op,              \* the last query, with its arguments
  ret,             \* what the last query returned
  videoPlayer      \* the VideoPlayerWithSubtitles component, << >> while none is
                   \* mounted

vars == << pc, currentSection, styleFormat, dialogueFormat, scriptInfo, styles,
          dialogues, op, ret, videoPlayer >>

NoOp == [name |-> "none", i |-> 0, t |-> Int2Num(0), style |-> << >>, rate |-> 0]

NoRet == [kind |-> "none", val |-> << >>]

Init ==
  /\ pc = "scan"
  /\ currentSection = << >>
  /\ styleFormat = << >>
  /\ dialogueFormat = << >>
  /\ scriptInfo = << >>
  /\ styles = << >>
  /\ dialogues = << >>
  /\ op = NoOp
  /\ ret = NoRet
  /\ videoPlayer = << >>

(***************************************************************************)
(* parse: one action per branch of the loop body.                          *)
(***************************************************************************)
IsHeader(line) == StartsWith(line, << "[" >>) /\ EndsWith(line, << "]" >>)

IsSkipped(line) == line = << >> \/ StartsWith(line, << ";" >>)

\* [Name] switches the section
SectionHeader(line) ==
  /\ pc = "scan"
  /\ IsHeader(line)
  /\ currentSection' = Slice(line, 1, Len(line) - 1)
  /\ UNCHANGED videoPlayer
  /\ UNCHANGED << pc, styleFormat, dialogueFormat, scriptInfo, styles, dialogues, op, ret >>

\* blank lines and comments
SkipLine(line) ==
  /\ pc = "scan"
  /\ ~IsHeader(line)
  /\ IsSkipped(line)
  /\ UNCHANGED vars

\* a dispatch that does not look at the section
InSectionAny(line, section) == pc = "scan" /\ ~IsHeader(line) /\ ~IsSkipped(line)

InSection(line, section) ==
  pc = "scan" /\ ~IsHeader(line) /\ ~IsSkipped(line) /\ currentSection = section

ScriptInfoLine(line) ==
  /\ InSection(line, SecScriptInfo)
  /\ scriptInfo' = parseScriptInfo(line, scriptInfo)
  /\ UNCHANGED videoPlayer
  /\ UNCHANGED << pc, currentSection, styleFormat, dialogueFormat, styles, dialogues, op,
                  ret >>

StyleFormatLine(line) ==
  /\ InSection(line, SecStyles)
  /\ StartsWith(line, PFormat)
  /\ styleFormat' = FormatOf(line)
  /\ UNCHANGED videoPlayer
  /\ UNCHANGED << pc, currentSection, dialogueFormat, scriptInfo, styles, dialogues, op,
                  ret >>

StyleLine(line) ==
  /\ InSection(line, SecStyles)
  /\ ~StartsWith(line, PFormat)
  /\ StartsWith(line, PStyle)
  /\ styles' = parseStyle(line, styleFormat, styles)
  /\ UNCHANGED videoPlayer
  /\ UNCHANGED << pc, currentSection, styleFormat, dialogueFormat, scriptInfo, dialogues,
                  op, ret >>

DialogueFormatLine(line) ==
  /\ InSection(line, SecEvents)
  /\ StartsWith(line, PFormat)
  /\ dialogueFormat' = FormatOf(line)
  /\ UNCHANGED videoPlayer
  /\ UNCHANGED << pc, currentSection, styleFormat, scriptInfo, styles, dialogues, op, ret >>

DialogueLine(line) ==
  /\ InSection(line, SecEvents)
  /\ ~StartsWith(line, PFormat)
  /\ StartsWith(line, PDialogue)
  /\ Len(dialogues) < MaxDialogues
  /\ dialogues' = parseDialogue(line, dialogueFormat, dialogues)
  /\ UNCHANGED videoPlayer
  /\ UNCHANGED << pc, currentSection, styleFormat, dialogueFormat, scriptInfo, styles, op,
                  ret >>

\* a line no case of the switch handles
IgnoredLine(line) ==
  /\ pc = "scan"
  /\ ~IsHeader(line)
  /\ ~IsSkipped(line)
  /\ \/ currentSection \notin {SecScriptInfo, SecStyles, SecEvents}
     \/ currentSection = SecStyles /\ ~StartsWith(line, PFormat) /\ ~StartsWith(line, PStyle)
     \/ currentSection = SecEvents /\ ~StartsWith(line, PFormat)
          /\ ~StartsWith(line, PDialogue)
  /\ UNCHANGED vars

\* the end of the input: parse returns result and its locals are gone
ParseReturn ==
  /\ pc = "scan"
  /\ pc' = "idle"
  /\ currentSection' = << >>
  /\ styleFormat' = << >>
  /\ dialogueFormat' = << >>
  /\ UNCHANGED videoPlayer
  /\ UNCHANGED << scriptInfo, styles, dialogues, op, ret >>

(***************************************************************************)
(* Queries on the parsed subtitle.                                         *)
(***************************************************************************)
GetActiveDialogues(currentTime) ==
  /\ pc = "idle"
  /\ pc' = "returned"
  /\ ret' = [kind |-> "dialogues", val |-> getActiveDialogues(dialogues, currentTime)]
  /\ op' = [NoOp EXCEPT !.name = "getActiveDialogues", !.t = currentTime]
  /\ UNCHANGED videoPlayer
  /\ UNCHANGED << currentSection, styleFormat, dialogueFormat, scriptInfo, styles,
                  dialogues >>

\* a direct call of generateFrameData on the i-th dialogue with a style of the table
GenerateFrameData(i, styleName, frameRate) ==
  /\ pc = "idle"
  /\ i \in 1..Len(dialogues)
  /\ HasKey(styles, styleName)
  /\ pc' = "returned"
  /\ ret' = [kind |-> "frames",
             val |-> Frames(dialogues[i], GetKey(styles, styleName), frameRate)]
  /\ op' = [NoOp EXCEPT !.name = "generateFrameData", !.i = i, !.style = styleName,
                        !.rate = frameRate]
  /\ UNCHANGED videoPlayer
  /\ UNCHANGED << currentSection, styleFormat, dialogueFormat, scriptInfo, styles,
                  dialogues >>

\* getFrameDataAtTime on the i-th dialogue: fill the cache when absent, then scan
GetFrameDataAtTime(i, currentTime, styleName) ==
  /\ pc = "idle"
  /\ i \in 1..Len(dialogues)
  /\ HasKey(styles, styleName)
  /\ \E frames \in {CachedFrames(dialogues[i], GetKey(styles, styleName))} :
       /\ dialogues' = [dialogues EXCEPT ![i].frames = frames]
       /\ ret' = IF Val(frames) = << >> THEN [kind |-> "throw", val |-> TypeError]
                 ELSE [kind |-> "frame",
                       val |-> ClosestFrame(dialogues[i], Val(frames), currentTime)]
  /\ pc' = "returned"
  /\ op' = [NoOp EXCEPT !.name = "getFrameDataAtTime", !.i = i, !.t = currentTime,
                        !.style = styleName]
  /\ UNCHANGED videoPlayer
  /\ UNCHANGED << currentSection, styleFormat, dialogueFormat, scriptInfo, styles >>

\* the caller takes the returned value and is ready for its next query
Consume ==
  /\ pc = "returned"
  /\ pc' = "idle"
  /\ ret' = NoRet
  /\ op' = NoOp
  /\ UNCHANGED videoPlayer
  /\ UNCHANGED << currentSection, styleFormat, dialogueFormat, scriptInfo, styles,
                  dialogues >>

NameDefault == << "D", "e", "f", "a", "u", "l", "t" >>

NameBig == << "B", "i", "g" >>

StyleNames == {NameDefault, NameBig}

Next ==
  \/ \E line \in Lines : SectionHeader(line)
  \/ \E line \in Lines : SkipLine(line)
  \/ \E line \in InfoLines : ScriptInfoLine(line)
  \/ \E line \in Lines : StyleFormatLine(line)
  \/ \E line \in Lines : StyleLine(line)
  \/ \E line \in Lines : DialogueFormatLine(line)
  \/ \E line \in Lines : DialogueLine(line)
  \/ \E line \in Lines : IgnoredLine(line)
  \/ ParseReturn
  \/ \E t \in Times : GetActiveDialogues(t)
  \/ \E i \in 1..MaxDialogues, n \in StyleNames, r \in FrameRates : GenerateFrameData(i, n, r)
  \/ \E i \in 1..MaxDialogues, t \in Times, n \in StyleNames : GetFrameDataAtTime(i, t, n)
  \/ Consume

Spec == Init /\ [][Next]_vars


(***************************************************************************)
(* The scan alone, every line under every section: the lines of the sample *)
(* and the header of a section parse has no handler for.                   *)
(***************************************************************************)
LineFontsHeader ==
  << "[","F","o","n","t","s","]" >>

SecFonts == Slice(LineFontsHeader, 1, Len(LineFontsHeader) - 1)

ScanLines == Lines \cup {LineFontsHeader}

\* the most keys the script info of a scan holds
MaxInfo == 1

ScanNext ==
  \/ \E line \in ScanLines : SectionHeader(line)
  \/ \E line \in ScanLines : SkipLine(line)
  \/ \E line \in ScanLines :
       /\ Len(parseScriptInfo(line, scriptInfo)) <= MaxInfo
       /\ ScriptInfoLine(line)
  \/ \E line \in ScanLines : StyleFormatLine(line)
  \/ \E line \in ScanLines : StyleLine(line)
  \/ \E line \in ScanLines : DialogueFormatLine(line)
  \/ \E line \in ScanLines : DialogueLine(line)
  \/ \E line \in ScanLines : IgnoredLine(line)
  \/ ParseReturn

ScanSpec == Init /\ [][ScanNext]_vars

(***************************************************************************)
(* Direct calls of the codec and of the text scanner: the argument is      *)
(* drawn when the call is made (op), the action applies the function (ret).*)
(***************************************************************************)
\* colour texts: every &H + 8 and &H + 6 digit text over four bytes
ColorBytes == {<< "0", "0" >>, << "8", "0" >>, << "F", "F" >>, << "0", "a" >>}

HexTexts8 ==
  {<< "&", "H" >> \o aa \o bb \o gg \o rr :
     aa \in ColorBytes, bb \in ColorBytes, gg \in ColorBytes, rr \in ColorBytes}

HexTexts6 ==
  {<< "&", "H" >> \o bb \o gg \o rr :
     bb \in ColorBytes, gg \in ColorBytes, rr \in ColorBytes}

\* six digits with the terminator of a style or override value
TextRedTerminated == << "&", "H", "0", "0", "0", "0", "F", "F", "&" >>

\* texts of another shape: empty, no prefix, no digit, two digits, nine digits,
\* letters that are no hex digits, the terminated text
OddColorTexts ==
  {<< >>,
   << "0", "0", "F", "F", "F", "F", "F", "F" >>,
   << "&", "H" >>,
   << "&", "H", "F", "F" >>,
   << "&", "H", "0", "0", "0", "0", "0", "0", "0", "F", "F" >>,
   << "&", "H", "G", "G", "0", "0", "0", "0" >>,
   << "&", "H", "0", "0", "F", "F", "Z", "Z", "F", "F" >>,
   TextRedTerminated}

ColorTexts == HexTexts8 \cup HexTexts6 \cup OddColorTexts

\* tagged texts: up to MaxPieces pieces, each a {...} block or a plain run.  The
\* blocks: one tag; two tags of different types; \1a before \alpha; a tag outside the
\* catalogue; \frz before two \fs
PieceSize ==
  << "{", "\\", "f", "s", "4", "0", "}" >>

PieceColourSize ==
  << "{", "\\", "1", "c", "&", "H", "0", "0", "0", "0", "F", "F", "&", "\\", "f", "s", "3", "0", "}" >>

PieceAlphas ==
  << "{", "\\", "1", "a", "&", "H", "8", "0", "&", "\\", "a", "l", "p", "h", "a", "&", "H", "F", "F", "&", "}" >>

PieceUnknown ==
  << "{", "\\", "b", "1", "}" >>

PieceTurnSizes ==
  << "{", "\\", "f", "r", "z", "9", "0", "\\", "f", "s", "1", "0", "\\", "f", "s", "5", "0", "}" >>

PieceA ==
  << "A" >>

PieceHi ==
  << "H", "i" >>

TextPieces ==
  {PieceSize, PieceColourSize, PieceAlphas, PieceUnknown, PieceTurnSizes, PieceA, PieceHi}

MaxPieces == 4

RECURSIVE PieceTexts(_)
PieceTexts(n) ==
  IF n = 0 THEN {<< >>}
  ELSE PieceTexts(n - 1) \cup {text \o piece : text \in PieceTexts(n - 1), piece \in TextPieces}

SegmentTexts == PieceTexts(MaxPieces)

\* texts carrying one \t(...) directive whose first two arguments are drawn from
\* OffsetTexts: zero, two positive offsets, a negative one, one that is no number
OffsetTexts ==
  {<< "0" >>, << "5", "0", "0" >>, << "1", "0", "0", "0" >>, << "-", "1", "0", "0" >>,
   << "x" >>}

TransitionText(first, second) ==
  << "{", "\\", "t", "(" >> \o first \o << "," >> \o second
    \o << ",", "\\", "f", "s", "4", "0", ")", "}", "H", "i" >>

\* a directive with two arguments only, and a text with two directives
TextTwoArguments ==
  << "{", "\\", "t", "(", "0", ",", "\\", "f", "s", "4", "0", ")", "}", "H", "i" >>

TextTwoTransitions ==
  TransitionText(<< "0" >>, << "5", "0", "0" >>)
    \o TransitionText(<< "1", "0", "0", "0" >>, << "5", "0", "0" >>)

TransitionTexts ==
  {TransitionText(first, second) : first \in OffsetTexts, second \in OffsetTexts}
    \cup {TextTwoArguments, TextTwoTransitions, PieceHi}

\* dialogues that outlast their transition: a window from the start
RowAfter ==
  << "D", "i", "a", "l", "o", "g", "u", "e", ":", " ", "0", ",", "0", ":", "0", "0", ":", "0", "0", ".", "0", "0", ",", "0", ":", "0", "0", ":", "0", "1", ".", "5", "0", ",", "D", "e", "f", "a", "u", "l", "t", ",", "H", "i", "{", "\\", "t", "(", "0", ",", "5", "0", "0", ",", "\\", "f", "s", "4", "0", ")", "}" >>

\* a window in the middle
RowLate ==
  << "D", "i", "a", "l", "o", "g", "u", "e", ":", " ", "0", ",", "0", ":", "0", "0", ":", "0", "0", ".", "0", "0", ",", "0", ":", "0", "0", ":", "0", "1", ".", "5", "0", ",", "D", "e", "f", "a", "u", "l", "t", ",", "H", "i", "{", "\\", "t", "(", "5", "0", "0", ",", "1", "0", "0", "0", ",", "\\", "f", "r", "z", "9", "0", ")", "}" >>

\* a window that ends before it starts
RowInverted ==
  << "D", "i", "a", "l", "o", "g", "u", "e", ":", " ", "0", ",", "0", ":", "0", "0", ":", "0", "0", ".", "0", "0", ",", "0", ":", "0", "0", ":", "0", "1", ".", "5", "0", ",", "D", "e", "f", "a", "u", "l", "t", ",", "H", "i", "{", "\\", "t", "(", "1", "0", "0", "0", ",", "0", ",", "\\", "f", "s", "4", "0", ")", "}" >>

WalkRows == {RowAfter, RowLate, RowInverted}

\* the dialogues generateFrameData is called on: those of the sample script and
\* those of WalkRows under the Format with Layer, Start, End, Style, Text
WalkDialogues ==
  SampleDialogues
    \cup UNION {{DecodeDialogue(line, FormatOf(LineEventFormat))[k] :
                  k \in 1..Len(DecodeDialogue(line, FormatOf(LineEventFormat)))} :
                line \in WalkRows}

(***************************************************************************)
(* The text style of AssSubtitleRenderer.                                  *)
(***************************************************************************)
\* the capture of /\\(?:<tags>)&H([0-9A-Fa-f]{6,8})&/ when it matches at position p
ColorTagAt(text, p, tags) ==
  IF p <= Len(text) /\ text[p] = "\\"
     /\ \E tag \in tags : At(text, p + 1, tag \o << "&", "H" >>)
  THEN LET tag  == CHOOSE tag \in tags : At(text, p + 1, tag \o << "&", "H" >>)
           from == p + 1 + Len(tag) + 2
           to   == RunEnd(text, from, HexDigits)
       IN  IF to - from \in 6..8 /\ to <= Len(text) /\ text[to] = "&"
           THEN Some(SubSeq(text, from, to - 1))
           ELSE Undef
  ELSE Undef

\* text.match(...) for one colour tag: the colour of the first match, if any
ExtractColor(text, tags) ==
  IF \E p \in 1..Len(text) : IsDef(ColorTagAt(text, p, tags))
  THEN LET p == CHOOSE p \in 1..Len(text) :
                  /\ IsDef(ColorTagAt(text, p, tags))
                  /\ \A q \in 1..(p - 1) : ~IsDef(ColorTagAt(text, q, tags))
       IN  Some(ColorOf(Val(ColorTagAt(text, p, tags))))
  ELSE Undef

\* extractColors(text): \c or \1c for the primary colour, \3c for the outline
extractColors(text) ==
  [primaryColor |-> ExtractColor(text, {T1c, Tc}),
   outlineColor |-> ExtractColor(text, {T3c})]

\* applyAlphaToColor(color, alpha)
applyAlphaToColor(color, alpha) ==
  LET rgba == parseRgbaColor(color)
  IN  IF ~IsDef(rgba) THEN color
      ELSE [r |-> Val(rgba).r, g |-> Val(rgba).g, b |-> Val(rgba).b, a |-> ToFixed3(alpha)]

\* a number that || passes over: undefined, NaN or 0
FalsyNumber(x) == ~IsDef(x) \/ IsNaN(Val(x)) \/ Val(x).n = 0

\* a || b || c
FirstDefined(a, b, c) == IF IsDef(a) THEN a ELSE IF IsDef(b) THEN b ELSE c

\* fontSize * getResponsiveFontScale()
Scaled(fontSize, scale) == IF IsDef(fontSize) THEN NumMul(Val(fontSize), scale) ELSE NaN

\* getTextStyle: the fields that depend on the frame; frameData is Undef for null
getTextStyle(frameData, colorOverrides, style, scale) ==
  LET frame        == IF IsDef(frameData) THEN Val(frameData)
                      ELSE [primaryColor |-> Undef, outlineColor |-> Undef,
                            fontSize |-> Undef, rotation |-> Undef, alpha |-> Undef]
      primaryColor == FirstDefined(frame.primaryColor, colorOverrides.primaryColor,
                                   style.primaryColour)
      outlineColor == FirstDefined(frame.outlineColor, colorOverrides.outlineColor,
                                   style.outlineColour)
      fontSize     == IF FalsyNumber(frame.fontSize) THEN style.fontsize ELSE frame.fontSize
      rotation     == IF FalsyNumber(frame.rotation) THEN style.angle ELSE frame.rotation
  IN  IF IsDef(frame.alpha) /\ ~IsDef(primaryColor) THEN TypeError
      ELSE [fontSize |-> Scaled(fontSize, scale),
            color |-> IF IsDef(frame.alpha)
                      THEN Some(applyAlphaToColor(Val(primaryColor), Val(frame.alpha)))
                      ELSE primaryColor,
            textShadowColor |-> outlineColor,
            rotate |-> rotation]

\* rows of style Big (angle 10, font size 30): a rotation of 0, and a font size of 0
\* with a colour, set by the first block
RowUpright ==
  << "D", "i", "a", "l", "o", "g", "u", "e", ":", " ", "0", ",", "0", ":", "0", "0", ":", "0", "0", ".", "0", "0", ",", "0", ":", "0", "0", ":", "0", "0", ".", "5", "0", ",", "B", "i", "g", ",", "{", "\\", "f", "r", "z", "0", "}", "H", "i" >>

RowTiny ==
  << "D", "i", "a", "l", "o", "g", "u", "e", ":", " ", "0", ",", "0", ":", "0", "0", ":", "0", "0", ".", "0", "0", ",", "0", ":", "0", "0", ":", "0", "0", ".", "5", "0", ",", "B", "i", "g", ",", "{", "\\", "f", "s", "0", "\\", "c", "&", "H", "0", "0", "0", "0", "F", "F", "&", "}", "H", "i" >>

RenderRows == {RowUpright, RowTiny}

\* the dialogues rendered: those of the sample script and those of RenderRows
RenderDialogues ==
  SampleDialogues
    \cup UNION {{DecodeDialogue(line, FormatOf(LineEventFormat))[k] :
                  k \in 1..Len(DecodeDialogue(line, FormatOf(LineEventFormat)))} :
                line \in RenderRows}

\* the values of getResponsiveFontScale on a phone: its two clamps
FontScales == {Rat(7, 20), Rat(4, 5)}

CallInit ==
  /\ pc = "call"
  /\ op \in {[name |-> "parseColor", text |-> text] : text \in ColorTexts}
            \cup {[name |-> "parseTextSegments", text |-> text] : text \in SegmentTexts}
            \cup {[name |-> "parseTransitions", text |-> text] : text \in TransitionTexts}
            \cup {[name |-> "generateFrameData", dialogue |-> dialogue, style |-> style,
                   rate |-> rate] :
                    dialogue \in WalkDialogues, style \in SampleStyles,
                    rate \in FrameRates \cup {DefaultFrameRate}}
            \cup {call \in {[name |-> "getTextStyle", dialogue |-> dialogue,
                              style |-> style, t |-> t, scale |-> scale] :
                               dialogue \in RenderDialogues, style \in SampleStyles,
                               t \in Times, scale \in FontScales} :
                      call.style.name = call.dialogue.style}
  /\ ret = NoRet
  /\ currentSection = << >>
  /\ styleFormat = << >>
  /\ dialogueFormat = << >>
  /\ scriptInfo = << >>
  /\ styles = << >>
  /\ dialogues = << >>
  /\ videoPlayer = << >>

\* parseColor(colorStr)
ParseColor ==
  /\ pc = "call"
  /\ op.name = "parseColor"
  /\ pc' = "returned"
  /\ ret' = [kind |-> "color", val |-> parseColor(op.text)]
  /\ UNCHANGED videoPlayer
  /\ UNCHANGED << currentSection, styleFormat, dialogueFormat, scriptInfo, styles,
                  dialogues, op >>

\* parseTextSegments(text)
ParseTextSegments ==
  /\ pc = "call"
  /\ op.name = "parseTextSegments"
  /\ pc' = "returned"
  /\ ret' = [kind |-> "segments", val |-> parseTextSegments(op.text)]
  /\ UNCHANGED videoPlayer
  /\ UNCHANGED << currentSection, styleFormat, dialogueFormat, scriptInfo, styles,
                  dialogues, op >>

\* parseTransitions(text)
ParseTransitions ==
  /\ pc = "call"
  /\ op.name = "parseTransitions"
  /\ pc' = "returned"
  /\ ret' = [kind |-> "transitions", val |-> parseTransitions(op.text)]
  /\ UNCHANGED videoPlayer
  /\ UNCHANGED << currentSection, styleFormat, dialogueFormat, scriptInfo, styles,
                  dialogues, op >>

\* generateFrameData(dialogue, style, frameRate)
GenerateFrames ==
  /\ pc = "call"
  /\ op.name = "generateFrameData"
  /\ pc' = "returned"
  /\ ret' = [kind |-> "frames", val |-> generateFrameData(op.dialogue, op.style, op.rate)]
  /\ UNCHANGED videoPlayer
  /\ UNCHANGED << currentSection, styleFormat, dialogueFormat, scriptInfo, styles,
                  dialogues, op >>

\* AssSubtitleRenderer for one dialogue and the style of its name: the frame of
\* getFrameDataAtTime(dialogue, currentTime, style), then getTextStyle()
RenderTextStyle ==
  /\ pc = "call"
  /\ op.name = "getTextStyle"
  /\ pc' = "returned"
  /\ LET frames    == generateFrameData(op.dialogue, op.style, DefaultFrameRate)
         frameData == ClosestFrame(op.dialogue, frames, op.t)
     IN  ret' = IF frameData = TypeError THEN [kind |-> "error", val |-> TypeError]
                ELSE [kind |-> "textStyle", frameData |-> frameData,
                      val |-> getTextStyle(Some(frameData),
                                           extractColors(Val(op.dialogue.originalText)),
                                           op.style, op.scale)]
  /\ UNCHANGED videoPlayer
  /\ UNCHANGED << currentSection, styleFormat, dialogueFormat, scriptInfo, styles,
                  dialogues, op >>

CallNext ==
  \/ ParseColor
  \/ ParseTextSegments
  \/ ParseTransitions
  \/ GenerateFrames
  \/ RenderTextStyle

CallSpec == CallInit /\ [][CallNext]_vars

(***************************************************************************)
(* Two callers inside getFrameDataAtTime on one dialogue with one style:   *)
(* the steps of lines 662-681 interleaved.  pc, op and ret are per caller; *)
(* op[c].generated is the value of the right-hand side of line 664 before  *)
(* it is assigned.                                                         *)
(***************************************************************************)
Callers == {"first", "second"}

RaceInit ==
  /\ pc = [c \in Callers |-> "check"]
  /\ \E dialogue \in SampleDialogues : dialogues = << dialogue >>
  /\ \E style \in SampleStyles : styles = << [key |-> Val(style.name), value |-> style] >>
  /\ op \in [Callers -> {[name |-> "getFrameDataAtTime", t |-> t, generated |-> Undef] :
                           t \in Times}]
  /\ ret = [c \in Callers |-> NoRet]
  /\ currentSection = << >>
  /\ styleFormat = << >>
  /\ dialogueFormat = << >>
  /\ scriptInfo = << >>
  /\ videoPlayer = << >>

\* line 662: if (!dialogue.frames)
Check(c) ==
  /\ pc[c] = "check"
  /\ pc' = [pc EXCEPT ![c] = IF IsDef(dialogues[1].frames) THEN "scan" ELSE "generate"]
  /\ UNCHANGED videoPlayer
  /\ UNCHANGED << currentSection, styleFormat, dialogueFormat, scriptInfo, styles,
                  dialogues, op, ret >>

\* line 664, right-hand side: this.generateFrameData(dialogue, style)
Generate(c) ==
  /\ pc[c] = "generate"
  /\ pc' = [pc EXCEPT ![c] = "write"]
  /\ op' = [op EXCEPT ![c].generated =
              Some(Frames(dialogues[1], styles[1].value, DefaultFrameRate))]
  /\ UNCHANGED videoPlayer
  /\ UNCHANGED << currentSection, styleFormat, dialogueFormat, scriptInfo, styles,
                  dialogues, ret >>

\* line 664, the assignment: dialogue.frames = ...
Write(c) ==
  /\ pc[c] = "write"
  /\ pc' = [pc EXCEPT ![c] = "scan"]
  /\ dialogues' = [dialogues EXCEPT ![1].frames = op[c].generated]
  /\ UNCHANGED videoPlayer
  /\ UNCHANGED << currentSection, styleFormat, dialogueFormat, scriptInfo, styles, op,
                  ret >>

\* lines 667-681: the scan of dialogue.frames and the return
Scan(c) ==
  /\ pc[c] = "scan"
  /\ pc' = [pc EXCEPT ![c] = "done"]
  /\ \E frames \in {Val(dialogues[1].frames)} :
       ret' = [ret EXCEPT ![c] =
                 IF frames = << >> THEN [kind |-> "throw", val |-> TypeError]
                 ELSE [kind |-> "frame",
                       val |-> ClosestFrame(dialogues[1], frames, op[c].t)]]
  /\ UNCHANGED videoPlayer
  /\ UNCHANGED << currentSection, styleFormat, dialogueFormat, scriptInfo, styles,
                  dialogues, op >>

RaceNext ==
  \/ \E c \in Callers : Check(c)
  \/ \E c \in Callers : Generate(c)
  \/ \E c \in Callers : Write(c)
  \/ \E c \in Callers : Scan(c)

RaceSpec == RaceInit /\ [][RaceNext]_vars

(***************************************************************************)
(* The controls overlay of VideoPlayerWithSubtitles (src/unnamed/part_000). *)
(* videoPlayer is a record of the component:                                *)
(*   isPlaying, showControlsOverlay, currentTime  the useState values       *)
(*   playerIsPlaying         the value useEvent(player, 'playingChange')    *)
(*                           holds                                          *)
(*   hideControlsTimeoutRef  the timer id in the ref, 0 for null            *)
(*   rendered                the state values of the last render: what the  *)
(*                           handlers and resetControlsTimer close over     *)
(*   deps                    the dependency values the effects last ran     *)
(*                           with, << >> before the mount effects           *)
(*   effectsPending          a render is committed, its effects are not run *)
(*   playing                 player.playing                                 *)
(*   events                  playingChange events emitted, not delivered    *)
(*   timers                  the pending setTimeout timers [id, remaining]  *)
(*   since                   seconds since the most recent interaction,     *)
(*                           counted up to HideDelay + 1                    *)
(* Time advances in steps of one second, and only when React has nothing    *)
(* left to do and no timer is due.                                          *)
(***************************************************************************)
HideDelay == 3

MaxTimers == 3

MaxEvents == 2

SeekPositions == {0, 5}

parserVars == << pc, currentSection, styleFormat, dialogueFormat, scriptInfo, styles,
                 dialogues, op, ret >>

StateOf(p) ==
  [isPlaying |-> p.isPlaying, playerIsPlaying |-> p.playerIsPlaying,
   showControlsOverlay |-> p.showControlsOverlay, currentTime |-> p.currentTime]

\* clearTimeout(id): a pending timer of that id is gone, any other id is ignored
ClearTimeout(timers, id) == {timer \in timers : timer.id # id}

\* if (hideControlsTimeoutRef.current) { clearTimeout(...); ... = null }
ClearRef(p) ==
  IF p.hideControlsTimeoutRef # 0
  THEN [p EXCEPT !.timers = ClearTimeout(p.timers, p.hideControlsTimeoutRef),
                 !.hideControlsTimeoutRef = 0]
  ELSE p

\* setTimeout(..., 3000): a timer under an id no pending timer has
SetTimeout(p) ==
  LET id == CHOOSE i \in 1..MaxTimers :
              /\ \A timer \in p.timers : timer.id # i
              /\ \A k \in 1..(i - 1) : \E timer \in p.timers : timer.id = k
  IN  [p EXCEPT !.timers = p.timers \cup {[id |-> id, remaining |-> HideDelay]},
                !.hideControlsTimeoutRef = id]

\* a resetControlsTimer that sets its timer without clearing the one in the ref
resetControlsTimerKeeping(p, isPlaying) ==
  LET shown == [p EXCEPT !.showControlsOverlay = TRUE]
  IN  IF isPlaying THEN SetTimeout(shown) ELSE shown

\* resetControlsTimer as created by a render in which isPlaying had the given value
resetControlsTimer(p, isPlaying) ==
  LET shown == [ClearRef(p) EXCEPT !.showControlsOverlay = TRUE]
  IN  IF isPlaying THEN SetTimeout(shown) ELSE shown

\* player.play() / player.pause(): a change of player.playing emits playingChange
SetPlaying(p, playing) ==
  IF p.playing = playing THEN p
  ELSE [p EXCEPT !.playing = playing, !.events = Append(p.events, playing)]

\* the component after its first render with the default props (autoPlay false),
\* the video loaded and paused
PlayerInit ==
  /\ videoPlayer =
       [isPlaying |-> FALSE, showControlsOverlay |-> TRUE, currentTime |-> 0,
        playerIsPlaying |-> FALSE, hideControlsTimeoutRef |-> 0,
        rendered |-> [isPlaying |-> FALSE, playerIsPlaying |-> FALSE,
                      showControlsOverlay |-> TRUE, currentTime |-> 0],
        deps |-> << >>, effectsPending |-> TRUE, playing |-> FALSE, events |-> << >>,
        timers |-> {}, since |-> 0]
  /\ pc = "mounted"
  /\ currentSection = << >>
  /\ styleFormat = << >>
  /\ dialogueFormat = << >>
  /\ scriptInfo = << >>
  /\ styles = << >>
  /\ dialogues = << >>
  /\ op = NoOp
  /\ ret = NoRet

\* React renders the component again after a state change
Render ==
  /\ ~videoPlayer.effectsPending
  /\ StateOf(videoPlayer) # videoPlayer.rendered
  /\ videoPlayer' = [videoPlayer EXCEPT !.rendered = StateOf(videoPlayer),
                                        !.effectsPending = TRUE]
  /\ UNCHANGED parserVars

\* the effects of the last render whose dependencies changed: setIsPlaying(
\* playerIsPlaying) (lines 66-68), then the cleanup of the previous
\* resetControlsTimer effect and the call of the new resetControlsTimer (166-174)
RunEffects ==
  /\ videoPlayer.effectsPending
  /\ Cardinality(videoPlayer.timers) < MaxTimers
  /\ LET r       == videoPlayer.rendered
         mount   == videoPlayer.deps = << >>
         synced  == IF mount \/ videoPlayer.deps[1].playerIsPlaying # r.playerIsPlaying
                    THEN [videoPlayer EXCEPT !.isPlaying = r.playerIsPlaying]
                    ELSE videoPlayer
         reset   == IF mount THEN resetControlsTimer(synced, r.isPlaying)
                    ELSE IF videoPlayer.deps[1].isPlaying # r.isPlaying
                    THEN resetControlsTimer(ClearRef(synced), r.isPlaying)
                    ELSE synced
     IN  videoPlayer' = [reset EXCEPT !.deps = << r >>, !.effectsPending = FALSE]
  /\ UNCHANGED parserVars

\* handleScreenPress (lines 195-197)
HandleScreenPress ==
  /\ Cardinality(videoPlayer.timers) < MaxTimers
  /\ videoPlayer' = [resetControlsTimer(videoPlayer, videoPlayer.rendered.isPlaying)
                       EXCEPT !.since = 0]
  /\ UNCHANGED parserVars

\* togglePlayPause (lines 177-185); its button exists while the overlay is rendered
TogglePlayPause ==
  /\ videoPlayer.rendered.showControlsOverlay
  /\ Cardinality(videoPlayer.timers) < MaxTimers
  /\ Len(videoPlayer.events) < MaxEvents
  /\ LET isPlaying == videoPlayer.rendered.isPlaying
         toggled   == [SetPlaying(videoPlayer, ~isPlaying) EXCEPT !.isPlaying = ~isPlaying]
     IN  videoPlayer' = [resetControlsTimer(toggled, isPlaying) EXCEPT !.since = 0]
  /\ UNCHANGED parserVars

\* seekTo (lines 188-192), from the progress bar of the rendered overlay
SeekTo(position) ==
  /\ videoPlayer.rendered.showControlsOverlay
  /\ Cardinality(videoPlayer.timers) < MaxTimers
  /\ videoPlayer' =
       [resetControlsTimer([videoPlayer EXCEPT !.currentTime = position],
                           videoPlayer.rendered.isPlaying)
          EXCEPT !.since = 0]
  /\ UNCHANGED parserVars

\* useEvent delivers the oldest playingChange event
PlayingChange ==
  /\ videoPlayer.events # << >>
  /\ videoPlayer' = [videoPlayer EXCEPT !.playerIsPlaying = Head(videoPlayer.events),
                                        !.events = Tail(videoPlayer.events)]
  /\ UNCHANGED parserVars

\* the video reaches its end (player.loop is false)
PlaybackEnds ==
  /\ videoPlayer.playing
  /\ Len(videoPlayer.events) < MaxEvents
  /\ videoPlayer' = SetPlaying(videoPlayer, FALSE)
  /\ UNCHANGED parserVars

\* a due hide timer runs its callback: setShowControlsOverlay(false)
HideControls ==
  /\ \E timer \in videoPlayer.timers :
       /\ timer.remaining = 0
       /\ videoPlayer' = [videoPlayer EXCEPT !.showControlsOverlay = FALSE,
                                             !.timers = videoPlayer.timers \ {timer}]
  /\ UNCHANGED parserVars

\* nothing is left to render, run or deliver
Settled ==
  /\ ~videoPlayer.effectsPending
  /\ StateOf(videoPlayer) = videoPlayer.rendered
  /\ videoPlayer.events = << >>

\* one second passes
Tick ==
  /\ Settled
  /\ \A timer \in videoPlayer.timers : timer.remaining > 0
  /\ videoPlayer' =
       [videoPlayer EXCEPT
          !.timers = {[timer EXCEPT !.remaining = timer.remaining - 1] :
                        timer \in videoPlayer.timers},
          !.since = IF videoPlayer.since > HideDelay THEN videoPlayer.since
                    ELSE videoPlayer.since + 1]
  /\ UNCHANGED parserVars

PlayerNext ==
  \/ Render
  \/ RunEffects
  \/ HandleScreenPress
  \/ TogglePlayPause
  \/ \E position \in SeekPositions : SeekTo(position)
  \/ PlayingChange
  \/ PlaybackEnds
  \/ HideControls
  \/ Tick

PlayerSpec == PlayerInit /\ [][PlayerNext]_vars

(***************************************************************************)
(* Properties.  In a state with pc = "returned", op holds the query just   *)
(* made and ret what it returned.                                          *)
(***************************************************************************)
Returned(name) == pc = "returned" /\ op.name = name

\* the dialogue and the style a generateFrameData or getFrameDataAtTime query named
QueryDialogue == dialogues[op.i]

QueryStyle == GetKey(styles, op.style)

\* duration = (end - start) * 1000 and delta = 1000 / frameRate
Duration(dialogue) ==
  NumMul(NumSub(Val(dialogue.end), Val(dialogue.start)), Int2Num(1000))

Delta(frameRate) == NumDiv(Int2Num(1000), Int2Num(frameRate))

\* start <= t <= end for a transition
InWindow(transition, t) ==
  NumLe(transition.startOffset, t) /\ NumLe(t, transition.endOffset)

(***************************************************************************)
(* getActiveDialogues                                                      *)
(***************************************************************************)
\* the positions of the dialogues whose closed interval holds the query time
ActiveIndices ==
  {k \in 1..Len(dialogues) :
     NumLe(Val(dialogues[k].start), op.t) /\ NumLe(op.t, Val(dialogues[k].end))}

\* the j-th of them in list order
NthActive(j) ==
  CHOOSE k \in ActiveIndices : Cardinality({m \in ActiveIndices : m <= k}) = j

\* C1: getActiveDialogues returns exactly the dialogues with start <= t <= end, both
\* bounds inclusive, in the order they have in subtitle.dialogues.
C1_ActiveExact ==
  Returned("getActiveDialogues") =>
    /\ ret.kind = "dialogues"
    /\ Len(ret.val) = Cardinality(ActiveIndices)
    /\ \A j \in 1..Len(ret.val) : ret.val[j] = dialogues[NthActive(j)]

\* two different dialogues returned, one of them at the very end of its interval
C1_Witness ==
  /\ Returned("getActiveDialogues")
  /\ Len(ret.val) = 2
  /\ ret.val[1] # ret.val[2]
  /\ \E j \in 1..2 : Val(ret.val[j].end) = op.t

(***************************************************************************)
(* parseDialogue                                                           *)
(***************************************************************************)
\* C2: every dialogue in the result of parse has start <= end (a row whose End is
\* earlier than its Start never appears in the dialogue list).
C2_StartBeforeEnd ==
  \A k \in 1..Len(dialogues) : NumLe(Val(dialogues[k].start), Val(dialogues[k].end))

DialogueLines == {l \in Lines : StartsWith(l, PDialogue)}

\* the row after its Dialogue: prefix, and the places of its commas
RowBody(row) == SubSeq(row, Len(PDialogue) + 1, Len(row))

Commas(s) == {k \in 1..Len(s) : s[k] = ","}

\* what follows the n-th comma of s
AfterCommas(s, n) ==
  IF n = 0 THEN s
  ELSE LET p == CHOOSE p \in Commas(s) : Cardinality({k \in Commas(s) : k <= p}) = n
       IN  SubSeq(s, p + 1, Len(s))

HasField(format, field) == \E i \in 1..Len(format) : format[i] = field

\* the text of a row under a Format with a Text field: all that follows the commas
\* of the fields before Text
RowText(row, format) ==
  LET i == CHOOSE i \in 1..Len(format) :
             format[i] = KText /\ \A m \in (i + 1)..Len(format) : format[m] # KText
  IN  Trim(AfterCommas(RowBody(row), i - 1))

\* enough tokens, Start and End in the Format, and text left once the blocks are gone
Acceptable ==
  [row \in DialogueLines, format \in Formats |->
     /\ Cardinality(Commas(RowBody(row))) + 1 >= Len(format)
     /\ HasField(format, KStart)
     /\ HasField(format, KEnd)
     /\ HasField(format, KText)
     /\ stripFormattingTags(RowText(row, format)) # << >>]

\* parseDialogue on a row in the current scan state
RowAppended(row) ==
  LET after == parseDialogue(row, dialogueFormat, dialogues)
  IN  IF Acceptable[row, dialogueFormat]
      THEN /\ Len(after) = Len(dialogues) + 1
           /\ SubSeq(after, 1, Len(dialogues)) = dialogues
      ELSE after = dialogues

\* C3: a Dialogue row is appended if and only if it has at least as many tokens as
\* the events Format has fields, the Format supplies Start and End, and its text is
\* non-empty after removing the {...} blocks and trimming; otherwise the dialogue
\* list is unchanged; and a step of the scan that changes the dialogue list appends
\* such a row and leaves the style table and the script info alone.
C3_AppendedIffAcceptable ==
  [][pc = "scan" =>
       /\ \A row \in DialogueLines : RowAppended(row)
       /\ dialogues' # dialogues =>
            /\ styles' = styles
            /\ scriptInfo' = scriptInfo
            /\ \E row \in DialogueLines :
                 /\ Acceptable[row, dialogueFormat]
                 /\ dialogues' = parseDialogue(row, dialogueFormat, dialogues)]_vars

\* a row with commas in its text has been appended, under a Format that drops
\* other rows
C3_Witness ==
  /\ pc = "scan"
  /\ \E k \in 1..Len(dialogues) : Commas(Val(dialogues[k].originalText)) # {}
  /\ \E row \in DialogueLines : Acceptable[row, dialogueFormat]
  /\ \E row \in DialogueLines : ~Acceptable[row, dialogueFormat]
  /\ styles # << >>

(***************************************************************************)
(* The frame cache                                                         *)
(***************************************************************************)
\* one step of the program seen from the i-th dialogue
CacheStep(i) ==
  /\ i <= Len(dialogues')
  /\ IsDef(dialogues[i].frames) => dialogues'[i].frames = dialogues[i].frames
  /\ dialogues'[i].frames # dialogues[i].frames =>
       /\ pc = "idle"
       /\ op'.name = "getFrameDataAtTime"
       /\ op'.i = i
       /\ dialogues'[i].frames =
            Some(generateFrameData(dialogues[i], GetKey(styles, op'.style),
                                   DefaultFrameRate))
  /\ (pc = "idle" /\ op'.name = "getFrameDataAtTime" /\ op'.i = i) =>
       /\ IsDef(dialogues'[i].frames)
       /\ ret'.kind = "frame" =>
            \E k \in 1..Len(Val(dialogues'[i].frames)) :
              ret'.val = Val(dialogues'[i].frames)[k]

\* C4: the frame cache of a dialogue is write-once: a present cache is never
\* changed, only getFrameDataAtTime on that dialogue writes it, only when it is
\* absent, with the frames generated at that call, and a call answers from the
\* cache.
C4_WriteOnce == [][\A i \in 1..Len(dialogues) : CacheStep(i)]_vars

\* a call with another style than the one the cache was filled with
C4_Witness ==
  /\ Returned("getFrameDataAtTime")
  /\ ret.kind = "frame"
  /\ Val(QueryDialogue.frames) #
       generateFrameData(QueryDialogue, QueryStyle, DefaultFrameRate)

(***************************************************************************)
(* generateFrameData: the timestamps                                       *)
(***************************************************************************)
\* C5: the sequence generateFrameData returns starts at timestamp 0, ascends in
\* steps of delta, and ends at a timestamp t with duration - delta < t <= duration.
C5_TimestampGrid ==
  Returned("generateFrameData") =>
    LET duration == Duration(QueryDialogue)
        delta    == Delta(op.rate)
        n        == Len(ret.val)
    IN  /\ n >= 1
        /\ ret.val[1].timestamp = Int2Num(0)
        /\ \A k \in 1..(n - 1) :
             ret.val[k + 1].timestamp = NumAdd(ret.val[k].timestamp, delta)
        /\ NumLt(NumSub(duration, delta), ret.val[n].timestamp)
        /\ NumLe(ret.val[n].timestamp, duration)

C7_Example4 ==
  (/\ Returned("generateFrameData")
   /\ Val(QueryDialogue.originalText) = TextGrow
   /\ QueryStyle.fontsize = Some(Int2Num(20))) =>
    \A k \in 1..Len(ret.val) :
      LET t == ret.val[k].timestamp
      IN  NumLe(t, Int2Num(1000)) =>
            ret.val[k].fontSize =
              Some(NumAdd(Int2Num(20), NumDiv(NumMul(Int2Num(20), t), Int2Num(1000))))

\* the value a targetChanges entry sets its property to
TargetHolds(frame, entry) ==
  CASE entry.type \in {T1c, Tc} -> frame.primaryColor = Some(ColorOf(entry.value))
    [] entry.type = T2c -> frame.secondaryColor = Some(ColorOf(entry.value))
    [] entry.type = T3c -> frame.outlineColor = Some(ColorOf(entry.value))
    [] entry.type = T4c -> frame.backColor = Some(ColorOf(entry.value))
    [] entry.type \in {Talpha, T1a} -> frame.alpha = Some(AlphaOf(entry.value))
    [] entry.type = Tfs -> frame.fontSize = Some(ParseFloat(entry.value))
    [] entry.type = Tfrz -> frame.rotation = Some(ParseFloat(entry.value))
    [] OTHER -> TRUE

\* the property a targetChanges entry names has the value it has in state
SourceHolds(frame, state, entry) ==
  CASE entry.type \in {T1c, Tc} -> frame.primaryColor = state.primaryColor
    [] entry.type = T2c -> frame.secondaryColor = state.secondaryColor
    [] entry.type = T3c -> frame.outlineColor = state.outlineColor
    [] entry.type = T4c -> frame.backColor = state.backColor
    [] entry.type \in {Talpha, T1a} -> frame.alpha = state.alpha
    [] entry.type = Tfs -> frame.fontSize = state.fontSize
    [] entry.type = Tfrz -> frame.rotation = state.rotation
    [] OTHER -> TRUE

NoNaN(frame) ==
  /\ IsDef(frame.alpha) => ~IsNaN(Val(frame.alpha))
  /\ IsDef(frame.fontSize) => ~IsNaN(Val(frame.fontSize))
  /\ IsDef(frame.rotation) => ~IsNaN(Val(frame.rotation))

\* no transition of the list but the j-th has t in its window
OnlyActive(transitions, j, t) ==
  \A m \in 1..Len(transitions) : m # j => ~InWindow(transitions[m], t)

\* C8: a transition with endOffset = startOffset is a jump: the frame sampled at
\* that timestamp has the target value of every property the transition targets
\* (when no later transition is active there), and no frame has a NaN value.
C8_ZeroWidthJump ==
  Returned("generateFrameData") =>
    LET transitions == Val(QueryDialogue.transitions)
    IN  /\ \A k \in 1..Len(ret.val) : NoNaN(ret.val[k])
        /\ \A j \in 1..Len(transitions), k \in 1..Len(ret.val) :
             (/\ transitions[j].endOffset = transitions[j].startOffset
              /\ ret.val[k].timestamp = transitions[j].startOffset
              /\ \A m \in (j + 1)..Len(transitions) :
                   ~InWindow(transitions[m], ret.val[k].timestamp)) =>
               \A e \in 1..Len(transitions[j].targetChanges) :
                 TargetHolds(ret.val[k], transitions[j].targetChanges[e])

\* C9: for a transition with startOffset < endOffset, alone in its window at both
\* ends, every property it targets has the value of the initial state in the frame
\* at startOffset and the target value in the frame at endOffset.
C9_Endpoints ==
  Returned("generateFrameData") =>
    LET transitions == Val(QueryDialogue.transitions)
        state       == InitialState(QueryDialogue, QueryStyle)
    IN  \A j \in 1..Len(transitions), k \in 1..Len(ret.val) :
          NumLt(transitions[j].startOffset, transitions[j].endOffset) =>
            /\ (/\ ret.val[k].timestamp = transitions[j].startOffset
                /\ OnlyActive(transitions, j, ret.val[k].timestamp)) =>
                 \A e \in 1..Len(transitions[j].targetChanges) :
                   SourceHolds(ret.val[k], state, transitions[j].targetChanges[e])
            /\ (/\ ret.val[k].timestamp = transitions[j].endOffset
                /\ OnlyActive(transitions, j, ret.val[k].timestamp)) =>
                 \A e \in 1..Len(transitions[j].targetChanges) :
                   TargetHolds(ret.val[k], transitions[j].targetChanges[e])

\* the \fs entries of a transition, and (t - start) / (end - start)
FsEntries(transition) ==
  {e \in 1..Len(transition.targetChanges) : transition.targetChanges[e].type = Tfs}

FsTarget(transition) ==
  ParseFloat(transition.targetChanges[CHOOSE e \in FsEntries(transition) : TRUE].value)

Progress(transition, t) ==
  NumDiv(NumSub(t, transition.startOffset),
         NumSub(transition.endOffset, transition.startOffset))

\* a dialogue with two transitions of the font size, each of positive width
TwoFontSizeTransitions(dialogue) ==
  /\ Len(Val(dialogue.transitions)) = 2
  /\ \A j \in 1..2 :
       /\ Cardinality(FsEntries(Val(dialogue.transitions)[j])) = 1
       /\ NumLt(Val(dialogue.transitions)[j].startOffset,
                Val(dialogue.transitions)[j].endOffset)

\* C10: two transitions T1, T2 active at a timestamp and targeting the font size
\* compose in list order: with base b, targets a1, a2 and progresses p1, p2 the
\* frame has v1 + (a2 - v1) * p2 where v1 = b + (a1 - b) * p1.
C10_SequentialComposition ==
  (Returned("generateFrameData") /\ TwoFontSizeTransitions(QueryDialogue)) =>
    LET T1 == Val(QueryDialogue.transitions)[1]
        T2 == Val(QueryDialogue.transitions)[2]
        b  == Val(InitialState(QueryDialogue, QueryStyle).fontSize)
    IN  \A k \in 1..Len(ret.val) :
          LET t  == ret.val[k].timestamp
              v1 == NumAdd(b, NumMul(NumSub(FsTarget(T1), b), Progress(T1, t)))
          IN  (InWindow(T1, t) /\ InWindow(T2, t)) =>
                ret.val[k].fontSize =
                  Some(NumAdd(v1, NumMul(NumSub(FsTarget(T2), v1), Progress(T2, t))))

\* a frame strictly inside the windows of both transitions
C10_Witness ==
  /\ Returned("generateFrameData")
  /\ TwoFontSizeTransitions(QueryDialogue)
  /\ \E k \in 1..Len(ret.val), j \in 1..2 :
       /\ \A m \in 1..2 :
            /\ NumLt(Val(QueryDialogue.transitions)[m].startOffset, ret.val[k].timestamp)
            /\ NumLt(ret.val[k].timestamp, Val(QueryDialogue.transitions)[m].endOffset)
       /\ ret.val[k].fontSize # Some(FsTarget(Val(QueryDialogue.transitions)[j]))

(***************************************************************************)
(* getFrameDataAtTime: the nearest frame                                   *)
(***************************************************************************)
\* relativeTime = (currentTime - dialogue.start) * 1000 of the query just made
RelativeTime == NumMul(NumSub(op.t, Val(QueryDialogue.start)), Int2Num(1000))

\* |relativeTime - timestamp|
Distance(frame) == NumAbs(NumSub(RelativeTime, frame.timestamp))

\* C11: getFrameDataAtTime on a cache that is not empty returns a cached frame whose
\* timestamp minimises |relativeTime - timestamp|, and of two frames equally near
\* the one with the earlier timestamp.
C11_NearestEarliest ==
  (Returned("getFrameDataAtTime") /\ Val(QueryDialogue.frames) # << >>) =>
    LET frames == Val(QueryDialogue.frames)
    IN  /\ ret.kind = "frame"
        /\ \E k \in 1..Len(frames) : frames[k] = ret.val
        /\ \A m \in 1..Len(frames) :
             /\ NumLe(Distance(ret.val), Distance(frames[m]))
             /\ Distance(frames[m]) = Distance(ret.val) =>
                  NumLe(ret.val.timestamp, frames[m].timestamp)

\* the query time is the exact midpoint of two cached frames
C11_Witness ==
  /\ Returned("getFrameDataAtTime")
  /\ ret.kind = "frame"
  /\ \E m \in 1..Len(Val(QueryDialogue.frames)) :
       /\ Val(QueryDialogue.frames)[m] # ret.val
       /\ Distance(Val(QueryDialogue.frames)[m]) = Distance(ret.val)

(***************************************************************************)
(* parseColor                                                              *)
(***************************************************************************)
\* the value of the two hex digits of text at the 1-based position i
ByteAt(text, i) == 16 * HexVal(text[i]) + HexVal(text[i + 1])

\* &H followed by exactly n hex digits
HexShape(text, n) ==
  /\ Len(text) = n + 2
  /\ text[1] = "&"
  /\ text[2] = "H"
  /\ \A k \in 3..Len(text) : text[k] \in HexDigits

\* (255 - aa) / 255
InvertedAlpha(aa) == Rat(255 - aa, 255)

\* v is x written with three decimals: a whole number of thousandths, at most half a
\* thousandth from x
ThreeDecimalsOf(v, x) ==
  /\ NumMul(v, Int2Num(1000)).d = 1
  /\ NumLe(NumAbs(NumSub(v, x)), Rat(1, 2000))

\* C12 as stated: for &H + AABBGGRR the colour is red RR, green GG, blue BB with
\* alpha exactly (255 - AA) / 255; for &H + BBGGRR it is opaque.
C12_ExactAlpha ==
  Returned("parseColor") =>
    /\ HexShape(op.text, 8) =>
         ret.val = [r |-> Int2Num(ByteAt(op.text, 9)), g |-> Int2Num(ByteAt(op.text, 7)),
                    b |-> Int2Num(ByteAt(op.text, 5)),
                    a |-> InvertedAlpha(ByteAt(op.text, 3))]
    /\ HexShape(op.text, 6) =>
         ret.val = [r |-> Int2Num(ByteAt(op.text, 7)), g |-> Int2Num(ByteAt(op.text, 5)),
                    b |-> Int2Num(ByteAt(op.text, 3)), a |-> Int2Num(1)]

\* C12: for &H + AABBGGRR the colour is red RR, green GG, blue BB with alpha
\* (255 - AA) / 255 written with three decimals (1 for AA = 00, 0 for AA = FF); for
\* &H + BBGGRR it is red RR, green GG, blue BB and opaque.
C12_RoundedAlpha ==
  Returned("parseColor") =>
    /\ HexShape(op.text, 8) =>
         /\ ret.val.r = Int2Num(ByteAt(op.text, 9))
         /\ ret.val.g = Int2Num(ByteAt(op.text, 7))
         /\ ret.val.b = Int2Num(ByteAt(op.text, 5))
         /\ ThreeDecimalsOf(ret.val.a, InvertedAlpha(ByteAt(op.text, 3)))
         /\ ByteAt(op.text, 3) = 0 => ret.val.a = Int2Num(1)
         /\ ByteAt(op.text, 3) = 255 => ret.val.a = Int2Num(0)
    /\ HexShape(op.text, 6) =>
         ret.val = [r |-> Int2Num(ByteAt(op.text, 7)), g |-> Int2Num(ByteAt(op.text, 5)),
                    b |-> Int2Num(ByteAt(op.text, 3)), a |-> Int2Num(1)]

\* eight digits with four different bytes and an alpha that is no whole number of
\* thousandths
C12_Witness ==
  /\ Returned("parseColor")
  /\ HexShape(op.text, 8)
  /\ Cardinality({ByteAt(op.text, 3), ByteAt(op.text, 5), ByteAt(op.text, 7),
                  ByteAt(op.text, 9)}) = 4
  /\ ret.val.a # InvertedAlpha(ByteAt(op.text, 3))

\* C13: parseColor of the text &H0000FF& is pure red with alpha 1.
C13_Example2 ==
  (Returned("parseColor") /\ op.text = TextRedTerminated) =>
    ret.val = [r |-> Int2Num(255), g |-> Int2Num(0), b |-> Int2Num(0), a |-> Int2Num(1)]

\* C14: for every text that is not &H followed by 6 or 8 hex digits parseColor
\* yields opaque white, and no component of its result is NaN.
C14_OtherShapesWhite ==
  (Returned("parseColor") /\ ~HexShape(op.text, 6) /\ ~HexShape(op.text, 8)) =>
    /\ ret.val = White
    /\ \A k \in {"r", "g", "b", "a"} : ~IsNaN(ret.val[k])

(***************************************************************************)
(* parseStyle                                                              *)
(***************************************************************************)
StyleLines == {l \in Lines : StartsWith(l, PStyle)}

\* the number of comma-separated values of a Style row
StyleValues(row) == Cardinality(Commas(SubSeq(row, Len(PStyle) + 1, Len(row)))) + 1

\* C15: a Style row whose number of comma-separated values differs from the number
\* of fields of the current styles Format leaves the style table as it was (no new
\* entry, no changed entry); a step of the scan that changes the style table decodes
\* a row with exactly as many values as the Format has fields.
C15_MismatchDiscarded ==
  [][pc = "scan" =>
       /\ \A row \in StyleLines :
            StyleValues(row) # Len(styleFormat) =>
              parseStyle(row, styleFormat, styles) = styles
       /\ styles' # styles =>
            \E row \in StyleLines :
              /\ StyleValues(row) = Len(styleFormat)
              /\ styles' = parseStyle(row, styleFormat, styles)]_vars

\* the table holds a style and the styles section offers a row of the same name
\* with one value fewer than the current Format has fields
C15_Witness ==
  /\ pc = "scan"
  /\ currentSection = SecStyles
  /\ \E row \in StyleLines :
       /\ StyleValues(row) + 1 = Len(styleFormat)
       /\ HasKey(styles, Trim(Split(SubSeq(row, Len(PStyle) + 1, Len(row)), ",")[1]))

(***************************************************************************)
(* parseDialogue: the text field                                           *)
(***************************************************************************)
\* the i-th comma-separated token of a row: what lies between its (i-1)-th and its
\* i-th comma
Token(row, i) ==
  LET rest == AfterCommas(RowBody(row), i - 1)
      c    == IndexFrom(rest, ",", 1)
  IN  IF c = 0 THEN rest ELSE SubSeq(rest, 1, c - 1)

TextLast(format) == format # << >> /\ format[Len(format)] = KText

\* the field format[i] of the dialogue was decoded from the i-th token of the row
FromToken(dialogue, row, format, i) ==
  LET value == Trim(Token(row, i))
  IN  CASE format[i] = KLayer -> dialogue.layer = Some(OrElse(ParseInt(value), Int2Num(0)))
        [] format[i] = KStart -> dialogue.start = Some(parseTime(value))
        [] format[i] = KEnd -> dialogue.end = Some(parseTime(value))
        [] format[i] = KStyle -> dialogue.style = Some(value)
        [] OTHER -> TRUE

\* C16: a dialogue decoded from a row under a Format of n fields that ends with Text
\* has as originalText all that follows the (n-1)-th comma of the row, trimmed, with
\* its commas, and its first n-1 fields come from the first n-1 tokens.
C16_TextRejoined ==
  (pc = "scan" /\ TextLast(dialogueFormat)) =>
    \A row \in DialogueLines :
      LET after == parseDialogue(row, dialogueFormat, dialogues)
          n     == Len(dialogueFormat)
      IN  after # dialogues =>
            /\ after[Len(after)].originalText =
                 Some(Trim(AfterCommas(RowBody(row), n - 1)))
            /\ \A i \in 1..(n - 1) : FromToken(after[Len(after)], row, dialogueFormat, i)

\* the last dialogue of the list comes from a row with more tokens than the Format
\* has fields: its text holds commas
C16_Witness ==
  /\ pc = "scan"
  /\ TextLast(dialogueFormat)
  /\ dialogues # << >>
  /\ \E row \in DialogueLines :
       /\ Cardinality(Commas(RowBody(row))) + 1 > Len(dialogueFormat)
       /\ parseDialogue(row, dialogueFormat, << >>) = << dialogues[Len(dialogues)] >>
       /\ Commas(Val(dialogues[Len(dialogues)].originalText)) # {}

(***************************************************************************)
(* parse: the dispatch on the current section                              *)
(***************************************************************************)
KnownSections == {SecScriptInfo, SecStyles, SecEvents}

\* C17: a step of the scan changes the style table only under [V4+ Styles], the
\* dialogue list only under [Events] and the script info only under [Script Info],
\* each time by the handler of that section on one line; a line before any header or
\* under another section name changes nothing; the section changes only at a
\* [Name] header, to Name, and a header changes nothing else.
C17_SectionDispatch ==
  [][(pc = "scan" /\ pc' = "scan") =>
       /\ styles' # styles =>
            /\ currentSection = SecStyles
            /\ \E line \in ScanLines :
                 StartsWith(line, PStyle) /\ styles' = parseStyle(line, styleFormat, styles)
       /\ dialogues' # dialogues =>
            /\ currentSection = SecEvents
            /\ \E line \in ScanLines :
                 /\ StartsWith(line, PDialogue)
                 /\ dialogues' = parseDialogue(line, dialogueFormat, dialogues)
       /\ scriptInfo' # scriptInfo =>
            /\ currentSection = SecScriptInfo
            /\ \E line \in ScanLines : scriptInfo' = parseScriptInfo(line, scriptInfo)
       /\ currentSection \notin KnownSections =>
            /\ << scriptInfo', styles', dialogues' >> = << scriptInfo, styles, dialogues >>
            /\ << styleFormat', dialogueFormat' >> = << styleFormat, dialogueFormat >>
       /\ currentSection' # currentSection =>
            /\ \E line \in ScanLines :
                 IsHeader(line) /\ currentSection' = Slice(line, 1, Len(line) - 1)
            /\ << scriptInfo', styles', dialogues' >> = << scriptInfo, styles, dialogues >>
            /\ << styleFormat', dialogueFormat' >> = << styleFormat, dialogueFormat >>
     ]_vars

\* under a section without handler, after a Style row was read as a key: value line
\* of the script info and rows were decoded in the styles and events sections
C17_Witness ==
  /\ pc = "scan"
  /\ currentSection = SecFonts
  /\ HasKey(scriptInfo, SubSeq(PStyle, 1, Len(PStyle) - 1))
  /\ styles # << >>
  /\ dialogues # << >>

(***************************************************************************)
(* parseTextSegments                                                       *)
(***************************************************************************)
\* position k of the text lies in a {...} block (the braces included)
Inside(text, k) ==
  \E b \in 1..k : text[b] = "{" /\ IndexFrom(text, "}", b) >= k

\* the positions where a plain run starts, and the j-th of them
RunStarts(text) ==
  {k \in 1..Len(text) : ~Inside(text, k) /\ (k = 1 \/ Inside(text, k - 1))}

NthRun(text, j) ==
  CHOOSE k \in RunStarts(text) : Cardinality({m \in RunStarts(text) : m <= k}) = j

\* the run that starts at k
RunAt(text, k) ==
  SubSeq(text, k, (CHOOSE e \in k..Len(text) :
                     /\ \A m \in k..e : ~Inside(text, m)
                     /\ e = Len(text) \/ Inside(text, e + 1)))

\* the tags of the blocks that start at from or later and before upto, block by
\* block, each with the 0-based offset of its block
RECURSIVE BlockTags(_, _, _)
BlockTags(text, from, upto) ==
  LET starts == {b \in from..(upto - 1) : text[b] = "{"}
  IN  IF starts = {} THEN << >>
      ELSE LET b    == CHOOSE b \in starts : \A m \in starts : b <= m
               e    == IndexFrom(text, "}", b)
               tags == parseOverrideTags(SubSeq(text, b, e))
           IN  [k \in 1..Len(tags) |-> [tags[k] EXCEPT !.startIndex = b - 1]]
               \o BlockTags(text, e + 1, upto)

\* a tag list without its offsets
TypesAndValues(tags) == [k \in 1..Len(tags) |-> [type |-> tags[k].type, value |-> tags[k].value]]

\* C18: parseTextSegments returns one segment per plain run, in order; the override
\* list of a segment is the tags of all the blocks before its run, in block order;
\* the list of a segment is a prefix of the list of the next one.
C18_CumulativeSnapshot ==
  Returned("parseTextSegments") =>
    /\ Len(ret.val) = Cardinality(RunStarts(op.text))
    /\ \A j \in 1..Len(ret.val) :
         /\ ret.val[j].text = RunAt(op.text, NthRun(op.text, j))
         /\ TypesAndValues(ret.val[j].overrides) =
              TypesAndValues(BlockTags(op.text, 1, NthRun(op.text, j)))
    /\ \A j \in 1..(Len(ret.val) - 1) :
         /\ Len(ret.val[j].overrides) <= Len(ret.val[j + 1].overrides)
         /\ ret.val[j].overrides =
              SubSeq(ret.val[j + 1].overrides, 1, Len(ret.val[j].overrides))

\* two segments, the first after a block with tags, the second after further tags
C18_Witness ==
  /\ Returned("parseTextSegments")
  /\ Len(ret.val) = 2
  /\ ret.val[1].overrides # << >>
  /\ Len(ret.val[1].overrides) < Len(ret.val[2].overrides)

\* C19: the startIndex of every override is the 0-based offset, in the tagged text,
\* of the { of its block, and startIndex and endIndex of every segment are the
\* offsets of its run in the tagged text: text.slice(startIndex, endIndex) is the
\* segment's text.
C19_OffsetsInTaggedText ==
  Returned("parseTextSegments") =>
    \A j \in 1..Len(ret.val) :
      /\ ret.val[j].startIndex = NthRun(op.text, j) - 1
      /\ ret.val[j].startIndex <= ret.val[j].endIndex
      /\ Slice(op.text, ret.val[j].startIndex, ret.val[j].endIndex) = ret.val[j].text
      /\ ret.val[j].overrides = BlockTags(op.text, 1, NthRun(op.text, j))

\* the properties of the running state and the tag types that set each
PropTypes ==
  [primaryColor |-> {T1c, Tc}, secondaryColor |-> {T2c}, outlineColor |-> {T3c},
   backColor |-> {T4c}, alpha |-> {Talpha, T1a}, fontSize |-> {Tfs},
   rotation |-> {Tfrz}]

\* the style defaults the overrides are applied to
DefaultsState ==
  [primaryColor |-> Some(White), secondaryColor |-> Some(White),
   outlineColor |-> Some(White), backColor |-> Some(White), alpha |-> Some(Int2Num(1)),
   fontSize |-> Some(Int2Num(20)), rotation |-> Some(Int2Num(0))]

\* the catalogue entries of the types of prop that match at position k
MatchesAt(text, k, prop) ==
  {m \in 1..Len(Patterns) :
     Patterns[m].type \in PropTypes[prop] /\ PatternEnd(text, k, Patterns[m]) # 0}

\* the positions before upto, inside a block, of the tags that set prop
TagPositions(text, upto, prop) ==
  {k \in 1..(upto - 1) : Inside(text, k) /\ MatchesAt(text, k, prop) # {}}

\* the tag at position k
TagAt(text, k, prop) ==
  LET pat == Patterns[CHOOSE m \in MatchesAt(text, k, prop) : TRUE]
  IN  [type |-> pat.type,
       value |-> PayloadValue(text, PatternPayload(text, k, pat), pat.kind),
       startIndex |-> 0]

\* C20: the overrides of a segment applied in list order to the style defaults give
\* every property the value of the last tag setting it in the text before the
\* segment, and the default when there is none.
C20_LastTagWins ==
  Returned("parseTextSegments") =>
    \A j \in 1..Len(ret.val), prop \in DOMAIN PropTypes :
      LET state     == ApplyOverrides(DefaultsState, ret.val[j].overrides)
          positions == TagPositions(op.text, NthRun(op.text, j), prop)
          last      == CHOOSE k \in positions : \A m \in positions : m <= k
      IN  IF positions = {} THEN state[prop] = DefaultsState[prop]
          ELSE state[prop] =
                 applyOverrideToState(DefaultsState, TagAt(op.text, last, prop))[prop]

\* C21: every transition parseTransitions returns has endOffset >= startOffset,
\* whatever the first two arguments of the \t(...) directive are
C21_EndNotBeforeStart ==
  (pc = "returned" /\ ret.kind = "transitions")
    => \A i \in 1..Len(ret.val) : ~NumLt(ret.val[i].endOffset, ret.val[i].startOffset)

\* the three parts of an AssSubtitle: key/value entries, styles by name, dialogues
\* that have a start, an end and a text
WellFormedResult ==
  /\ \A i \in 1..Len(scriptInfo) : DOMAIN scriptInfo[i] = {"key", "value"}
  /\ \A i \in 1..Len(styles) :
       /\ DOMAIN styles[i] = {"key", "value"}
       /\ DOMAIN styles[i].value = DOMAIN EmptyStyle
  /\ \A i \in 1..Len(dialogues) :
       /\ DOMAIN dialogues[i] = DOMAIN EmptyDialogue
       /\ Accepted(dialogues[i])

\* C22: parse never raises: whatever lines it has read (rows too short or too long,
\* rows before their Format, unknown sections, comments) it holds a well-formed
\* partial result and no error value, it can always reach its return, and what it
\* returns is an AssSubtitle with scriptInfo, styles and dialogues
C22_ParseNeverRaises ==
  /\ pc \in {"scan", "idle"}
  /\ ret = NoRet
  /\ WellFormedResult
  /\ pc = "scan" => ENABLED ParseReturn

\* parse has returned a partial result: a script info entry and a dialogue whose
\* style no accepted Style row defined
C22_Witness ==
  /\ pc = "idle"
  /\ scriptInfo # << >>
  /\ \E i \in 1..Len(dialogues) : ~HasKey(styles, Val(dialogues[i].style))

\* what one call alone returns to caller c on the dialogue with an empty cache
SequentialReturn(c) ==
  LET frames == Frames([dialogues[1] EXCEPT !.frames = Undef], styles[1].value,
                       DefaultFrameRate)
  IN  IF frames = << >> THEN [kind |-> "throw", val |-> TypeError]
      ELSE [kind |-> "frame", val |-> ClosestFrame(dialogues[1], frames, op[c].t)]

BothGenerated == \A c \in Callers : pc[c] = "done" /\ IsDef(op[c].generated)

\* C23: when two callers on the same dialogue with the same style both saw the cache
\* absent, both generated and both wrote, then after any interleaving the cache holds
\* the frames one call alone generates and each caller got the frame one call alone
\* returns for its time
C23_RaceHarmless ==
  BothGenerated =>
    /\ dialogues[1].frames
         = Some(Frames([dialogues[1] EXCEPT !.frames = Undef], styles[1].value,
                       DefaultFrameRate))
    /\ \A c \in Callers : ret[c] = SequentialReturn(c)

\* both callers generated and wrote, and returned frames for two different times
C23_Witness ==
  /\ BothGenerated
  /\ ret["first"].kind = "frame"
  /\ ret["second"].kind = "frame"
  /\ ret["first"].val # ret["second"].val

Interaction == HandleScreenPress \/ TogglePlayPause \/ \E position \in SeekPositions : SeekTo(position)

\* at most one hide timer is pending
OneTimer == Cardinality(videoPlayer.timers) <= 1

\* paused or stopped, effects run: the overlay is visible and no timer is pending
PausedVisible ==
  (Settled /\ ~videoPlayer.playing) =>
    /\ ~videoPlayer.isPlaying
    /\ videoPlayer.showControlsOverlay
    /\ videoPlayer.timers = {}

\* playing, effects run: until HideDelay seconds after the most recent interaction
\* the overlay is visible and its one timer has the rest of the delay to run; from
\* then on the timer is due or the overlay is hidden with no timer left
PlayingHides ==
  (Settled /\ videoPlayer.playing) =>
    /\ videoPlayer.isPlaying
    /\ IF videoPlayer.since < HideDelay
       THEN /\ videoPlayer.showControlsOverlay
            /\ videoPlayer.timers
                 = {[id |-> videoPlayer.hideControlsTimeoutRef,
                     remaining |-> HideDelay - videoPlayer.since]}
       ELSE \/ /\ videoPlayer.showControlsOverlay
               /\ videoPlayer.timers
                    = {[id |-> videoPlayer.hideControlsTimeoutRef, remaining |-> 0]}
            \/ /\ ~videoPlayer.showControlsOverlay
               /\ videoPlayer.timers = {}

\* an interaction makes the overlay visible and leaves no timer of those that were
\* pending: a timer after it is one it has just set
InteractionResets ==
  Interaction =>
    /\ videoPlayer'.showControlsOverlay
    /\ \A timer \in videoPlayer'.timers : timer.remaining = HideDelay
    /\ Cardinality(videoPlayer'.timers) <= 1

\* C24: the controls auto-hide: while the video plays the overlay is hidden HideDelay
\* seconds after the most recent interaction unless another one comes first; each
\* interaction shows the overlay and cancels the pending hide, so at most one hide
\* timer is pending; when playback is paused or has stopped, once the effects have
\* run, the overlay is visible and no hide timer is pending
C24_AutoHide ==
  /\ [](OneTimer /\ PausedVisible /\ PlayingHides)
  /\ [][InteractionResets]_vars

\* under CallSpec: generateFrameData has returned the frames of op.dialogue
Generated == pc = "returned" /\ op.name = "generateFrameData"

\* the frame of the initial state at a timestamp: { timestamp, ...currentState }
BaseFrame(timestamp) == FrameAt(InitialState(op.dialogue, op.style), Undef, timestamp)

WalkTransitions ==
  IF IsDef(op.dialogue.transitions) THEN Val(op.dialogue.transitions) ELSE << >>

OutsideWindows(timestamp) ==
  \A j \in 1..Len(WalkTransitions) : ~InWindow(WalkTransitions[j], timestamp)

\* C25: transitions never change the base state of the walk: a frame whose
\* timestamp lies outside every transition's window, also after a transition has
\* completed, equals the initial state (style defaults plus the first segment's
\* overrides) at that timestamp
C25_BaseStateKept ==
  Generated =>
    \A k \in 1..Len(ret.val) :
      OutsideWindows(ret.val[k].timestamp) => ret.val[k] = BaseFrame(ret.val[k].timestamp)

\* a frame inside a window differs from the initial state, and a later frame, after
\* that transition has completed, is outside every window
C25_Witness ==
  /\ Generated
  /\ \E j \in 1..Len(ret.val), k \in 1..Len(ret.val), n \in 1..Len(WalkTransitions) :
       /\ j < k
       /\ InWindow(WalkTransitions[n], ret.val[j].timestamp)
       /\ ret.val[j] # BaseFrame(ret.val[j].timestamp)
       /\ NumLt(WalkTransitions[n].endOffset, ret.val[k].timestamp)
       /\ OutsideWindows(ret.val[k].timestamp)

\* the timestamp of the k-th frame as the loop accumulates it in doubles
RECURSIVE StampAfter(_, _, _)
StampAfter(k, timestamp, frameInterval) ==
  IF k = 1 \/ BigLt(timestamp, BigZero) THEN timestamp
  ELSE StampAfter(k - 1, DoubleAdd(timestamp, frameInterval), frameInterval)

DoubleStamp(k, frameInterval) == StampAfter(k, BigZero, frameInterval)

\* |relativeTime - timestamp| < frameInterval for the k-th cached frame
NearStamp(k) ==
  LET frameInterval == ToDouble(Delta(DefaultFrameRate))
      timestamp     == DoubleStamp(k, frameInterval)
      relativeTime  == ToDouble(RelativeTime)
  IN  /\ BigLt(relativeTime, BigAdd(timestamp, frameInterval))
      /\ BigLt(timestamp, BigAdd(relativeTime, frameInterval))

\* C26: for a dialogue that getActiveDialogues returns at time t (start <= t <= end),
\* getFrameDataAtTime at t does not fail, leaves a cache that is not empty and
\* returns a frame whose timestamp is less than one frame interval away from
\* (t - start) * 1000
C26_ActiveHasNearFrame ==
  (Returned("getFrameDataAtTime") /\ op.i \in ActiveIndices) =>
    /\ ret.kind = "frame"
    /\ IsDef(QueryDialogue.frames)
    /\ Val(QueryDialogue.frames) # << >>
    /\ \E k \in 1..Len(Val(QueryDialogue.frames)) :
         Val(QueryDialogue.frames)[k] = ret.val /\ NearStamp(k)

\* an active dialogue queried at its end, which no frame reaches
C26_Witness ==
  /\ Returned("getFrameDataAtTime")
  /\ op.i \in ActiveIndices
  /\ ret.kind = "frame"
  /\ op.t = Val(QueryDialogue.end)
  /\ NumLt(Int2Num(0), Distance(ret.val))

\* a getFrameDataAtTime step on the i-th dialogue whose cache is already there
CachedCall(i) ==
  /\ pc = "idle"
  /\ op'.name = "getFrameDataAtTime"
  /\ op'.i = i
  /\ IsDef(dialogues[i].frames)

\* what the cache answers at a time, whatever the style of the call
CacheAnswer(i, currentTime) ==
  IF Val(dialogues[i].frames) = << >> THEN [kind |-> "throw", val |-> TypeError]
  ELSE [kind |-> "frame",
        val |-> ClosestScan(Val(dialogues[i].frames),
                            NumMul(NumSub(currentTime, Val(dialogues[i].start)),
                                   Int2Num(1000)))]

\* C27: once the frame cache of a dialogue is populated, getFrameDataAtTime does not
\* regenerate it and its result depends only on the dialogue and currentTime: a call
\* passing another style returns a frame of the cache, which holds the frames of the
\* style of the call that filled it
C27_StyleIgnored ==
  [][\A i \in 1..Len(dialogues) :
       CachedCall(i) =>
         /\ dialogues' = dialogues
         /\ ret' = CacheAnswer(i, op'.t)
         /\ \E k \in 1..Len(styles) :
              dialogues[i].frames
                = Some(Frames(dialogues[i], styles[k].value, DefaultFrameRate))]_vars

\* the returned frame is none of the frames the style of this call generates
C27_Witness ==
  /\ Returned("getFrameDataAtTime")
  /\ ret.kind = "frame"
  /\ \A k \in 1..Len(Frames(QueryDialogue, QueryStyle, DefaultFrameRate)) :
       Frames(QueryDialogue, QueryStyle, DefaultFrameRate)[k] # ret.val

\* the Format lines the scan reads
ScanFormats == {line \in ScanLines : StartsWith(line, PFormat)}

\* one step of the scan, seen from the two remembered Formats and the rows decoded
FormatStep ==
  pc' = "scan" =>
    /\ styleFormat' # styleFormat =>
         /\ currentSection = SecStyles
         /\ \E line \in ScanFormats : styleFormat' = FormatOf(line)
         /\ UNCHANGED << dialogueFormat, styles, dialogues >>
    /\ dialogueFormat' # dialogueFormat =>
         /\ currentSection = SecEvents
         /\ \E line \in ScanFormats : dialogueFormat' = FormatOf(line)
         /\ UNCHANGED << styleFormat, styles, dialogues >>
    /\ styles' # styles =>
         /\ styleFormat # << >>
         /\ \E line \in {l \in ScanLines : StartsWith(l, PStyle)} :
              /\ StyleTable[line, styleFormat] # << >>
              /\ styles' = PutKey(styles, Val(StyleTable[line, styleFormat][1].name),
                                  StyleTable[line, styleFormat][1])
    /\ dialogues' # dialogues =>
         /\ dialogueFormat # << >>
         /\ \E line \in {l \in ScanLines : StartsWith(l, PDialogue)} :
              dialogues' = dialogues \o DialogueTable[line, dialogueFormat]

\* C28: a Style row (Dialogue row) is decoded against the Format the styles (events)
\* section read last: a row before any such Format adds nothing, a Format line of
\* one section never changes the other section's Format, and a Format line changes
\* no style and no dialogue already parsed
C28_MostRecentFormat == [][FormatStep]_vars

\* the events section has read a second Format, one without Start, after a dialogue
\* was parsed under the first; the styles Format and the dialogue are still there
C28_Witness ==
  /\ pc = "scan"
  /\ dialogueFormat = FormatOf(LineEventFormatNoStart)
  /\ styleFormat = FormatOf(LineStyleFormat)
  /\ dialogues # << >>
  /\ styles # << >>


\* C29: generateFrameData returns floor(duration / delta) + 1 frames when
\* duration = (end - start) * 1000 is not negative and no frame when it is
\* negative, where delta = 1000 / frameRate
C29_FrameCount ==
  Generated =>
    LET duration == Duration(op.dialogue)
        delta    == Delta(op.rate)
    IN  Len(ret.val) = IF NumLt(duration, Int2Num(0)) THEN 0
                       ELSE Floor(NumDiv(duration, delta)) + 1


\* under CallSpec: the renderer has computed the text style from the frame
\* getFrameDataAtTime returned
Rendered == pc = "returned" /\ op.name = "getTextStyle" /\ ret.kind = "textStyle"

FontSizeUsed == ret.val.fontSize = Scaled(ret.frameData.fontSize, op.scale)

RotationUsed == ret.val.rotate = ret.frameData.rotation

\* the red, green and blue of the frame's primary colour
ColourUsed ==
  /\ IsDef(ret.val.color)
  /\ IsDef(ret.frameData.primaryColor)
  /\ \A k \in {"r", "g", "b"} : Val(ret.val.color)[k] = Val(ret.frameData.primaryColor)[k]

\* C30: whenever getFrameDataAtTime returns a frame for the rendered dialogue, the
\* text style has that frame's font size (scaled), rotation and primary colour,
\* not the style's static fontsize and angle or the static colour overrides
C30_FrameStyleUsed == Rendered => (FontSizeUsed /\ RotationUsed /\ ColourUsed)

=============================================================================
